---- MODULE Spec2Model ----
(***************************************************************************)
(* Model of src/api_client.py: ResponseCache, RateLimiter and APIClient    *)
(* (backend rotation, generate with cache / limiter / retry / backoff),    *)
(* together with the parts of src/config.py the client reads               *)
(* (ConfigManager.backends, Backend.enabled, Backend.model).               *)
(*                                                                         *)
(* Time is in seconds.  The clock `now` advances only by Tick; a sleep is  *)
(* a suspension point of the sleeping thread (other actions may run while  *)
(* it sleeps) and the model does not force the clock forward over it.      *)
(*                                                                         *)
(* A generate call is cut at its suspension points: the limiter, the       *)
(* backend call and the backoff sleep.  _init_clients takes no lock and    *)
(* rebuilds the list one backend at a time, so a call can see the list     *)
(* empty or partly built.  The OpenAI constructor is taken to succeed for  *)
(* every enabled backend.  The exception hierarchy is that of the openai   *)
(* package the source imports from (OpenAI, RateLimitError, APIError).     *)
(***************************************************************************)
EXTENDS Integers, Sequences, FiniteSets, TLC

(***************************************************************************)
(* Bounds of the model.                                                    *)
(***************************************************************************)
MaxRetriesArg == 2      \* max_retries arguments range over -1..MaxRetriesArg
MaxCalls      == 2      \* generate calls started in one behaviour
MaxOps        == 1      \* other operations (configuration edits, reinit,
                        \* cache clears, clock advances) in one behaviour
MaxTrace      == 4      \* operations on a component used on its own
JitterSteps   == 4      \* values the jitter of a backoff sleep is drawn from
MaxIdle       == 6      \* refill intervals the clock of a limiter runs over

(***************************************************************************)
(* Program constants.                                                      *)
(***************************************************************************)
MAX_CACHE_SIZE == 1000  \* api_client.py:29
DEFAULT_TTL    == 3600  \* api_client.py:71, CacheEntry.ttl default
LIMITER_RATE   == 10    \* api_client.py:209 / 273, RateLimiter(rate=10, ...)
LIMITER_WINDOW == 60    \* api_client.py:209 / 273, RateLimiter(..., window=60)
BASE_WAIT      == 1     \* api_client.py:258, base_wait = 1.0

(***************************************************************************)
(* The configured backends (ConfigManager.backends, in configuration       *)
(* order) and the values Backend.model takes.  "" is the empty model name: *)
(* update_backend assigns the attribute before it validates.               *)
(***************************************************************************)
BackendOrder == <<"A", "B">>
Backends     == {BackendOrder[i] : i \in 1..Len(BackendOrder)}
Models       == {"m1", "m2", ""}
InitialModel == [b \in Backends |-> IF b = "A" THEN "m1" ELSE "m2"]
(* The model names update_backend sets for backend b. *)
ModelEdits(b) == {InitialModel[b], ""}

Threads == {"t1"}
NoBackend == "-"

(***************************************************************************)
(* Values of the `messages` argument.  is_list = FALSE stands for any      *)
(* non-list object; an item is a role/content pair (pair = TRUE) or some   *)
(* other element; json = FALSE marks an element json.dumps cannot encode.  *)
(***************************************************************************)
Item(pair, json, content) == [pair |-> pair, json |-> json, content |-> content]
MsgNotAList  == [is_list |-> FALSE, items |-> <<>>]
MsgEmpty     == [is_list |-> TRUE,  items |-> <<>>]
MsgHello     == [is_list |-> TRUE,  items |-> <<Item(TRUE, TRUE, "hi")>>]
MsgMalformed == [is_list |-> TRUE,  items |-> <<Item(FALSE, TRUE, "oops")>>]
MsgBytes     == [is_list |-> TRUE,  items |-> <<Item(FALSE, FALSE, "raw")>>]
MessageArgs  == {MsgNotAList, MsgEmpty, MsgHello, MsgMalformed, MsgBytes}

(* Line 253: isinstance(messages, list) and len(messages) > 0. *)
IsNonEmptyList(messages) == messages.is_list /\ Len(messages.items) > 0

JsonSerializable(messages) ==
    \A i \in 1..Len(messages.items) : messages.items[i].json

(***************************************************************************)
(* What a backend invocation does: it returns a response or raises.        *)
(* Exception classes follow the openai package: RateLimitError,            *)
(* APITimeoutError / InternalServerError ("TransientAPIError") and         *)
(* AuthenticationError (like BadRequestError and the other 4xx status      *)
(* errors) are all subclasses of APIError; "Other" is any exception that   *)
(* is not an APIError.                                                     *)
(***************************************************************************)
ErrorClasses == {"RateLimitError", "TransientAPIError", "AuthenticationError",
                 "Other"}
IsRateLimitError(e) == e = "RateLimitError"
(* Faulty variant: the `except APIError` clause matches nothing. *)
IsAPIErrorNever(e) == FALSE
IsAPIError(e) ==
    e \in {"RateLimitError", "TransientAPIError", "AuthenticationError"}

(* Response shapes: choices[0].message.content, choices[0].text, neither. *)
Responses == { [shape |-> "message", content |-> "Hello"],
               [shape |-> "message", content |-> " "],
               [shape |-> "text",    content |-> "Hello"],
               [shape |-> "other",   content |-> "raw"] }

Strip(s) == IF s = " " THEN "" ELSE s

ExtractContent(response) ==
    IF response.shape = "message" THEN Strip(response.content)
    ELSE IF response.shape = "text" THEN Strip(response.content)
    ELSE "str(response)"

(* Python truthiness of a string: `if cached`, `use_cache and model`. *)
Truthy(s) == s # ""

(* Faulty variant: the use_cache argument is ignored. *)
CacheWheneverModel(use_cache, m) == Truthy(m)
(* Line 276 / 306: `use_cache and model`. *)
ShouldUseCache(use_cache, m) == use_cache /\ Truthy(m)

(* Faulty variant: an off-by-one loop test. *)
LoopContinuesOnceMore(retries, max_retries) == retries <= max_retries
(* Line 262: the loop test. *)
LoopContinues(retries, max_retries) == retries < max_retries

(* Faulty variant: every exception that is no RateLimitError is retried. *)
HandlerRetriesAll(e) ==
    IF IsRateLimitError(e) THEN "except RateLimitError" ELSE "except APIError"
(* The except clause that handles exception class e (tried in order). *)
Handler(e) ==
    IF IsRateLimitError(e) THEN "except RateLimitError"
    ELSE IF IsAPIError(e) THEN "except APIError"
    ELSE "except Exception"

(***************************************************************************)
(* The backoff sleep.  Durations are exact fractions num/den (den > 0),    *)
(* compared by cross-multiplication.                                       *)
(***************************************************************************)
Rat(n, d) == [num |-> n, den |-> d]
RatLess(a, b) == a.num * b.den < b.num * a.den
RatLeq(a, b)  == a.num * b.den <= b.num * a.den
RatSame(a, b) == a.num * b.den = b.num * a.den
RatAdd(a, b)  == Rat(a.num * b.den + b.num * a.den, a.den * b.den)
RatSub(a, b)  == Rat(a.num * b.den - b.num * a.den, a.den * b.den)
RatMul(a, b)  == Rat(a.num * b.num, a.den * b.den)

RECURSIVE RatPow(_, _)
RatPow(a, k) == IF k = 0 THEN Rat(1, 1) ELSE RatMul(a, RatPow(a, k - 1))

(* Line 234: backoff_factor: float = 1.5. *)
DEFAULT_BACKOFF_FACTOR == Rat(3, 2)

(* Lines 314 / 321: jitter = random.random() * 0.5, a value of [0, 0.5);   *)
(* the values j / (2 * JitterSteps) for j < JitterSteps stand for it.      *)
Jitters == { Rat(j, 2 * JitterSteps) : j \in 0..(JitterSteps - 1) }
NoJitter == Rat(0, 2 * JitterSteps)

(* Faulty variant: the wait does not grow with the retry count. *)
BackoffWaitFlat(factor, k, jitter) == RatAdd(Rat(BASE_WAIT, 1), jitter)
(* Lines 315 / 322:                                                        *)
(* wait_time = base_wait * (backoff_factor ** retry_count) + jitter.       *)
BackoffWait(factor, k, jitter) ==
    RatAdd(RatMul(Rat(BASE_WAIT, 1), RatPow(factor, k)), jitter)

(***************************************************************************)
(* ResponseCache.  The map is a function from keys to entries; a key is    *)
(* the digest of (json.dumps(messages), model), modelled as the pair       *)
(* itself (distinct pairs give distinct digests).  A dict keeps its keys   *)
(* in insertion order, which min() follows among equal timestamps: the     *)
(* field `order` of an entry is the key's place in that order.             *)
(***************************************************************************)
EmptyCache == [k \in {} |-> 0]

(* json.dumps(messages, sort_keys=True), as the sequence of its pieces: a   *)
(* list is written between brackets, a role/content pair between braces.   *)
dumps(messages) ==
    LET piece(item) == IF item.pair THEN <<"{", item.content, "}">>
                       ELSE <<item.content>>
        pieces[i \in 0..Len(messages.items)] ==
            IF i = 0 THEN <<>> ELSE pieces[i - 1] \o piece(messages.items[i])
    IN  IF messages.is_list
        THEN <<"[">> \o pieces[Len(messages.items)] \o <<"]">>
        ELSE <<"object">>

(* A model name as the sequence of its characters. *)
Chars(m) == IF m = "m1" THEN <<"m", "1">>
            ELSE IF m = "m2" THEN <<"m", "2">>
            ELSE <<>>

(* Faulty variant: the model is left out of the key. *)
KeyWithoutModel(messages, m) == dumps(messages)

(* Lines 52-53: the text of the messages followed by the model name; the   *)
(* md5 digest of it is taken to be different for different texts.          *)
_generate_key(messages, m) == dumps(messages) \o Chars(m)

CacheEntry(value, timestamp, ttl) ==
    [value |-> value, timestamp |-> timestamp, ttl |-> ttl, order |-> 1]

(* The place a key inserted into map c takes: after every key of c. *)
NextOrder(c) ==
    IF DOMAIN c = {} THEN 1
    ELSE 1 + (CHOOSE n \in {c[k].order : k \in DOMAIN c} :
                 \A k \in DOMAIN c : c[k].order <= n)

(* Faulty variant: an entry is still served when exactly ttl has elapsed. *)
UnexpiredInclusive(entry, t) == t - entry.timestamp <= entry.ttl
Unexpired(entry, t) == t - entry.timestamp < entry.ttl

Without(c, key) == [k \in DOMAIN c \ {key} |-> c[k]]

(* The value ResponseCache.get returns: some = FALSE is None. *)
CacheGetResult(c, key, t) ==
    IF key \in DOMAIN c /\ Unexpired(c[key], t)
    THEN [some |-> TRUE, value |-> c[key].value]
    ELSE [some |-> FALSE, value |-> ""]

(* Line 278: `if cached`: None and the empty string are both false. *)
IsHit(cached) == cached.some /\ Truthy(cached.value)

(* Faulty variant: get deletes the entry it looks up. *)
CacheAfterGetDeletes(c, key, t) == Without(c, key)
(* The map after ResponseCache.get: an expired entry is deleted. *)
CacheAfterGet(c, key, t) ==
    IF key \in DOMAIN c /\ ~Unexpired(c[key], t) THEN Without(c, key) ELSE c

(* min(self.cache.keys(), key=timestamp): the first key, in the order of   *)
(* the dict, among those of the least timestamp.                           *)
OldestKey(c) ==
    CHOOSE k \in DOMAIN c :
        \A j \in DOMAIN c :
            \/ c[k].timestamp < c[j].timestamp
            \/ c[k].timestamp = c[j].timestamp /\ c[k].order <= c[j].order

(* Faulty variant: set stores nothing. *)
CacheAfterSetDropped(c, key, value, ttl, t, max_size) == c
(* The map after ResponseCache.set. *)
CacheAfterSet(c, key, value, ttl, t, max_size) ==
    LET kept == IF Cardinality(DOMAIN c) >= max_size
                THEN Without(c, OldestKey(c)) ELSE c
    IN  [k \in DOMAIN kept \cup {key} |->
            IF k = key
            THEN [CacheEntry(value, t, ttl) EXCEPT !.order =
                     IF key \in DOMAIN kept THEN kept[key].order
                     ELSE NextOrder(kept)]
            ELSE kept[k]]

(* response_cache.json: absent, present but not a JSON document (a write   *)
(* that failed after the file was opened leaves it cut short), or a        *)
(* document with an object per key.                                        *)
NoDocument      == [state |-> "missing", entries |-> EmptyCache]
CorruptDocument == [state |-> "corrupt", entries |-> EmptyCache]
Document(entries) == [state |-> "document", entries |-> entries]

(* datetime.isoformat and datetime.fromisoformat: a timestamp is written   *)
(* as text; text of any other shape does not parse.                        *)
isoformat(t) == <<"iso", t>>
Unparsable   == <<"yesterday">>
IsIsoFormat(text) == Len(text) = 2 /\ text[1] = "iso"
fromisoformat(text) == text[2]

(* json.dump writes the ttl as a number; int(v.get("ttl", 3600)), line     *)
(* 130, takes a number as it is and raises ValueError for other text.      *)
JsonNumber(n) == <<"number", n>>
BadTtl == <<"soon">>
IsInt(v) == Len(v) = 2 /\ v[1] = "number"
int(v) == v[2]

(* _save_to_disk, lines 105-113: the document holds value, timestamp and   *)
(* ttl of every entry under its key, the keys in the order of the dict.    *)
SaveToDisk(c) ==
    Document([k \in DOMAIN c |->
                 [value |-> c[k].value, timestamp |-> isoformat(c[k].timestamp),
                  ttl |-> JsonNumber(c[k].ttl), order |-> c[k].order]])

LoadedNothing(doc, t) == EmptyCache

(* _load_from_disk, lines 117-134, at time t: every entry of the document  *)
(* becomes an entry of the map, a timestamp that does not parse becoming   *)
(* t (lines 126-129); neither expiry nor max_size is looked at.  A missing *)
(* file leaves the map empty, and so does any exception: json.load on a    *)
(* file that is not a JSON document, int() on a ttl that is not a number   *)
(* (line 130, outside the inner try; self.cache = loaded is not reached).  *)
LoadFromDisk(doc, t) ==
    IF doc.state # "document" THEN EmptyCache
    ELSE IF \E k \in DOMAIN doc.entries : ~IsInt(doc.entries[k].ttl)
    THEN EmptyCache
    ELSE [k \in DOMAIN doc.entries |->
             [CacheEntry(doc.entries[k].value,
                         IF IsIsoFormat(doc.entries[k].timestamp)
                         THEN fromisoformat(doc.entries[k].timestamp) ELSE t,
                         int(doc.entries[k].ttl))
                 EXCEPT !.order = doc.entries[k].order]]

(***************************************************************************)
(* RateLimiter.                                                            *)
(***************************************************************************)
Min(a, b) == IF a <= b THEN a ELSE b

RateLimiter(rate, window, t) ==
    [rate |-> rate, window |-> window, tokens |-> rate, last_update |-> t]

(* tokens after the refill of acquire at time t; the clock moves in        *)
(* multiples of window / rate, so the quotient is exact.                   *)
RefilledUncapped(l, t) ==
    l.tokens + ((t - l.last_update) * l.rate) \div l.window

Refilled(l, t) ==
    Min(l.rate, l.tokens + ((t - l.last_update) * l.rate) \div l.window)

(* Faulty variant: a blocking acquire takes nothing from the bucket. *)
AfterBlockingAcquireFree(l, n, t) == [l EXCEPT !.last_update = t]

(* The limiter after acquire(tokens = n, blocking = TRUE) entered at time  *)
(* t: the refill, then the deduction; with too few tokens the caller       *)
(* sleeps inside the lock and the bucket is set to zero (lines 166-170).   *)
AfterBlockingAcquire(l, n, t) ==
    [l EXCEPT !.tokens = IF Refilled(l, t) >= n THEN Refilled(l, t) - n ELSE 0,
              !.last_update = t]

(* Lines 206 / 269: limiter_key = f"{backend.name}_{model}". *)
limiter_key(backend, m) == <<backend, "_">> \o Chars(m)

SufficientStrict(available, n) == available > n

AfterRefusalDrained(l, available, t) ==
    [l EXCEPT !.tokens = 0, !.last_update = t]

(* Lines 159-160 and 172: a request that is not served leaves the refilled *)
(* count in the bucket.                                                    *)
AfterRefusal(l, available, t) ==
    [l EXCEPT !.tokens = available, !.last_update = t]

(* Line 162: if self.tokens >= tokens. *)
Sufficient(available, n) == available >= n

WaitTimeWhole(l, n, available) == (n * l.window) \div l.rate

(* Line 167: wait_time = (tokens - self.tokens) * self.window / self.rate,  *)
(* for a request of n tokens that finds `available` after the refill.      *)
WaitTime(l, n, available) == ((n - available) * l.window) \div l.rate

(***************************************************************************)
(* State.                                                                  *)
(***************************************************************************)
VARIABLES
    enabled,               \* config: Backend.enabled of each configured backend
    model,                 \* config: Backend.model (the Backend objects are
                           \* shared by reference with APIClient.clients)
    clients,               \* APIClient.clients, as the sequence of backends
    rate_limiters,         \* APIClient.rate_limiters: limiter key -> RateLimiter
    current_client_index,  \* APIClient.current_client_index
    cache,                 \* ResponseCache.cache
    now,                   \* the clock (seconds)
    init_todo,             \* _init_clients: enabled_backends still to append
    init_pc,               \* _init_clients: "idle" or "building"
    pc,                    \* per thread: position in generate
    args,                  \* per thread: messages, use_cache, max_retries
    retry_count,           \* per thread: local retry_count
    client_info,           \* per thread: idx read and backend selected
    local_model,           \* per thread: local `model` (line 268)
    outcome,               \* per thread: how the last generate call ended
    obs,                   \* per thread: what the current call has done so far
    budget,                \* generate calls and other operations so far
    disk,                  \* the persisted document response_cache.json
    max_size,              \* ResponseCache.max_size
    bucket,                \* a RateLimiter instance used on its own
    bucket_lock,           \* RateLimiter.lock of that instance: its holder
    upc,                   \* per caller of a component on its own: position
    trace                  \* the operations made on a component on its own

vars == <<enabled, model, clients, rate_limiters, current_client_index,
          cache, now, init_todo, init_pc, pc, args, retry_count, client_info,
          local_model, outcome, obs, budget, disk, max_size, bucket,
          bucket_lock, upc, trace>>

config_vars == <<enabled, model>>
client_vars == <<clients, rate_limiters, current_client_index>>
reinit_vars == <<init_todo, init_pc>>
thread_vars == <<pc, args, retry_count, client_info, local_model, outcome, obs>>
bucket_vars == <<bucket, bucket_lock>>
(* What the steps of generate and of the client's environment leave alone. *)
unit_vars   == <<max_size, bucket_vars, upc, trace>>

(* Faulty variant: the cursor is written back as it was read. *)
NextIndexStuck(idx, n) == idx
(* Line 226: self.current_client_index = (idx + 1) % len(self.clients). *)
NextIndex(idx, n) == (idx + 1) % n

(* Faulty variant: the enabled flag is ignored. *)
EveryBackend == BackendOrder
(* ConfigManager.get_enabled_backends: the enabled backends, in order. *)
get_enabled_backends == SelectSeq(BackendOrder, LAMBDA b : enabled[b])

(* APIClient.get_cache_stats (usage_rate omitted: total_entries / max_size). *)
get_cache_stats ==
    [total_entries |-> Cardinality(DOMAIN cache), max_size |-> max_size]

NoArgs == [messages |-> MsgNotAList, use_cache |-> FALSE, max_retries |-> 0]
NoClient == [idx |-> 0, backend |-> NoBackend]
NoOutcome == [kind |-> "none", success |-> FALSE, payload |-> <<>>]
Returned(success, payload) ==
    [kind |-> "return", success |-> success, payload |-> payload]
Raised(exception) ==
    [kind |-> "raise", success |-> FALSE, payload |-> <<exception>>]

(* Payloads: the failure messages of generate and the generated text. *)
MsgNoBackend      == <<"no enabled backend">>          \* line 250
MsgBadMessages    == <<"messages must be a non-empty list">>  \* line 254
MsgNoClient       == <<"no API client available">>     \* line 265
MsgError(e)       == <<"error", e>>                    \* line 329
MsgRetries(n)     == <<"failed after retries", n>>     \* line 331
Text(s)           == <<"text", s>>

(* What a call has done so far: counts of its backend invocations, backoff *)
(* sleeps, limiter acquires, cache reads and writes, cursor advances and   *)
(* enabled-backend checks; the classes of the errors raised; the result of *)
(* its first invocation ("ok" or the error class); whether an invocation   *)
(* succeeded; what its latest cache lookup returned; whether it hit; the   *)
(* durations of its backoff sleeps, in order.                              *)
NoObs == [invocations |-> 0, errors |-> {}, first |-> "", ok |-> FALSE,
          sleeps |-> 0, acquires |-> 0, cache_gets |-> 0, cache_sets |-> 0,
          selections |-> 0, cached |-> [some |-> FALSE, value |-> ""],
          hit |-> FALSE, no_backend_checks |-> 0, waits |-> <<>>]

(* What _load_from_disk finds at construction: no document, or a document  *)
(* written by an earlier run (ResponseCache.set saves the whole map).      *)
PersistedCaches ==
    {EmptyCache}
    \cup { [k \in {_generate_key(MsgHello, "m1")} |->
               CacheEntry(v, 0, DEFAULT_TTL)] : v \in {"Hello", ""} }

(* Faulty variant: every limiter is made anew. *)
WithLimitersFresh(ls, keys, t) ==
    [k \in DOMAIN ls \cup keys |-> RateLimiter(LIMITER_RATE, LIMITER_WINDOW, t)]

(* The limiters _init_clients adds for the backends of `bs` (lines 205-209). *)
WithLimiters(ls, keys, t) ==
    [k \in DOMAIN ls \cup keys |->
        IF k \in DOMAIN ls THEN ls[k]
        ELSE RateLimiter(LIMITER_RATE, LIMITER_WINDOW, t)]

Range(s) == {s[i] : i \in 1..Len(s)}

(* The callers of a component used on its own, and their idle state. *)
Callers == {"u1", "u2"}
NoHolder == "-"
IdleCaller == [at |-> "idle"]

(* The client's variables after APIClient.__init__, the cache apart. *)
ClientInit ==
    /\ enabled \in [Backends -> BOOLEAN]
    /\ model = InitialModel
    /\ clients = get_enabled_backends
    /\ rate_limiters =
         WithLimiters(EmptyCache,
                      {limiter_key(b, model[b]) : b \in Range(clients)}, 0)
    /\ current_client_index = 0
    /\ now = 0
    /\ init_todo = <<>>
    /\ init_pc = "idle"
    /\ pc = [t \in Threads |-> "idle"]
    /\ args = [t \in Threads |-> NoArgs]
    /\ retry_count = [t \in Threads |-> 0]
    /\ client_info = [t \in Threads |-> NoClient]
    /\ local_model = [t \in Threads |-> ""]
    /\ outcome = [t \in Threads |-> NoOutcome]
    /\ obs = [t \in Threads |-> NoObs]
    /\ budget = [calls |-> 0, ops |-> 0]

(* No component is used on its own. *)
NoUnit ==
    /\ bucket = RateLimiter(LIMITER_RATE, LIMITER_WINDOW, 0)
    /\ bucket_lock = NoHolder
    /\ upc = [u \in Callers |-> IdleCaller]
    /\ trace = <<>>

Init ==
    /\ ClientInit
    /\ disk \in {SaveToDisk(c) : c \in PersistedCaches}
    /\ cache = LoadFromDisk(disk, 0)
    /\ max_size = MAX_CACHE_SIZE
    /\ NoUnit

(***************************************************************************)
(* APIClient.generate, one action per step between suspension points.      *)
(***************************************************************************)
Bump(t, field) == [obs EXCEPT ![t][field] = @ + 1]

(* generate returns `out` (or raises): the call is over. *)
Finish(t, out) ==
    /\ pc' = [pc EXCEPT ![t] = "done"]
    /\ outcome' = [outcome EXCEPT ![t] = out]

(* Lines 248-258: entry.  The enabled-backend check reads the live         *)
(* configuration; the parameter check follows it.                          *)
Call(t, messages, use_cache, max_retries) ==
    /\ pc[t] = "idle"
    /\ budget.calls < MaxCalls
    /\ budget' = [budget EXCEPT !.calls = @ + 1]
    /\ args' = [args EXCEPT ![t] = [messages |-> messages,
                                    use_cache |-> use_cache,
                                    max_retries |-> max_retries]]
    /\ obs' = Bump(t, "no_backend_checks")
    /\ IF get_enabled_backends = <<>>
       THEN Finish(t, Returned(FALSE, MsgNoBackend))
       ELSE IF ~IsNonEmptyList(messages)
       THEN Finish(t, Returned(FALSE, MsgBadMessages))
       ELSE /\ pc' = [pc EXCEPT ![t] = "loop"]
            /\ outcome' = [outcome EXCEPT ![t] = NoOutcome]
    /\ UNCHANGED <<config_vars, client_vars, cache, now, reinit_vars,
                   retry_count, client_info, local_model>>
    /\ UNCHANGED <<disk, unit_vars>>

(* One pass of the loop up to the limiter, lines 262-279.  The statements  *)
(* between two suspension points (the limiter, the backend call, the       *)
(* backoff sleep) run as one step:                                         *)
(*   262      the loop test; line 331 when it fails;                       *)
(*   263-265  _get_next_client (218-227): None for an empty list;          *)
(*            self.clients[idx] raises IndexError for an index past the    *)
(*            end, which nothing in generate catches; the cursor advances; *)
(*   267-273  model = backend.model (the live attribute) and the limiter   *)
(*            for (backend.name, model) is created if it is missing;       *)
(*   275-279  the cache lookup under that model: ResponseCache.get         *)
(*            computes the key first (json.dumps raises TypeError on an    *)
(*            element it cannot encode, outside the try block), deletes an *)
(*            expired entry, and `if cached` tests the value's truthiness. *)
Attempt(t) ==
    /\ pc[t] = "loop"
    /\ LET a       == args[t]
           idx     == current_client_index
           backend == clients[idx + 1]
           m       == model[backend]
           looks   == ShouldUseCache(a.use_cache, m)
           key     == _generate_key(a.messages, m)
           cached  == CacheGetResult(cache, key, now)
       IN  IF ~LoopContinues(retry_count[t], a.max_retries)
           THEN /\ Finish(t, Returned(FALSE, MsgRetries(a.max_retries)))
                /\ UNCHANGED <<client_vars, cache, client_info, local_model,
                               obs>>
           ELSE IF clients = <<>>
           THEN /\ Finish(t, Returned(FALSE, MsgNoClient))
                /\ UNCHANGED <<client_vars, cache, client_info, local_model,
                               obs>>
           ELSE IF ~(idx < Len(clients))
           THEN /\ Finish(t, Raised("IndexError"))
                /\ UNCHANGED <<client_vars, cache, client_info, local_model,
                               obs>>
           ELSE /\ current_client_index' = NextIndex(idx, Len(clients))
                /\ client_info' = [client_info EXCEPT ![t] =
                                      [idx |-> idx, backend |-> backend]]
                /\ local_model' = [local_model EXCEPT ![t] = m]
                /\ rate_limiters' =
                     WithLimiters(rate_limiters, {limiter_key(backend, m)}, now)
                /\ UNCHANGED clients
                /\ IF ~looks
                   THEN /\ pc' = [pc EXCEPT ![t] = "acquire"]
                        /\ obs' = Bump(t, "selections")
                        /\ UNCHANGED <<cache, outcome>>
                   ELSE IF ~JsonSerializable(a.messages)
                   THEN /\ Finish(t, Raised("TypeError"))
                        /\ obs' = Bump(t, "selections")
                        /\ UNCHANGED cache
                   ELSE /\ cache' = CacheAfterGet(cache, key, now)
                        /\ IF IsHit(cached)
                           THEN /\ Finish(t, Returned(TRUE, Text(cached.value)))
                                /\ obs' = [obs EXCEPT ![t].selections = @ + 1,
                                                      ![t].cache_gets = @ + 1,
                                                      ![t].cached = cached,
                                                      ![t].hit = TRUE]
                           ELSE /\ pc' = [pc EXCEPT ![t] = "acquire"]
                                /\ obs' = [obs EXCEPT ![t].selections = @ + 1,
                                                      ![t].cache_gets = @ + 1,
                                                      ![t].cached = cached]
                                /\ UNCHANGED outcome
    /\ UNCHANGED <<config_vars, now, reinit_vars, args, retry_count, budget>>
    /\ UNCHANGED <<disk, unit_vars>>

(* Line 283: self.rate_limiters[limiter_key].acquire(blocking=True).  The   *)
(* limiter's lock is held from entry to return, the sleep included, so the *)
(* limiter changes as in one step.                                         *)
Acquire(t) ==
    /\ pc[t] = "acquire"
    /\ LET key == limiter_key(client_info[t].backend, local_model[t])
       IN  rate_limiters' = [rate_limiters EXCEPT ![key] =
                                AfterBlockingAcquire(@, 1, now)]
    /\ obs' = Bump(t, "acquires")
    /\ pc' = [pc EXCEPT ![t] = "invoke"]
    /\ UNCHANGED <<config_vars, clients, current_client_index, cache, now,
                   reinit_vars, args, retry_count, client_info, local_model,
                   outcome, budget>>
    /\ UNCHANGED <<disk, unit_vars>>

(* Lines 287-310: the backend returns `response`; the text is extracted,   *)
(* written to the cache under the backend's model and returned.            *)
InvokeOk(t, response) ==
    /\ pc[t] = "invoke"
    /\ LET content == ExtractContent(response)
           key == _generate_key(args[t].messages, local_model[t])
           seen == [obs EXCEPT ![t].invocations = @ + 1,
                               ![t].ok = TRUE,
                               ![t].first = IF @ = "" THEN "ok" ELSE @]
       IN  IF ~ShouldUseCache(args[t].use_cache, local_model[t])
           THEN /\ Finish(t, Returned(TRUE, Text(content)))
                /\ obs' = seen
                /\ UNCHANGED <<cache, disk>>
           ELSE IF ~JsonSerializable(args[t].messages)
           THEN /\ Finish(t, Returned(FALSE, MsgError("TypeError")))
                /\ obs' = seen
                /\ UNCHANGED <<cache, disk>>
           ELSE /\ cache' = CacheAfterSet(cache, key, content, DEFAULT_TTL,
                                          now, max_size)
                /\ disk' = SaveToDisk(cache')
                /\ Finish(t, Returned(TRUE, Text(content)))
                /\ obs' = [seen EXCEPT ![t].cache_sets = @ + 1]
    /\ UNCHANGED <<config_vars, client_vars, now, reinit_vars, args,
                   retry_count, client_info, local_model, budget>>
    /\ UNCHANGED unit_vars

(* Lines 312-329: the backend invocation raises an exception of class e.   *)
(* RateLimitError and APIError count a retry and sleep the backoff; any    *)
(* other exception returns the failure at once.  `jitter` is the value    *)
(* random.random() * 0.5 takes in the handler.                             *)
InvokeRaise(t, e, jitter) ==
    /\ pc[t] = "invoke"
    /\ LET seen == [obs EXCEPT ![t].invocations = @ + 1,
                               ![t].errors = @ \cup {e},
                               ![t].first = IF @ = "" THEN e ELSE @]
       IN  IF Handler(e) \in {"except RateLimitError", "except APIError"}
           THEN /\ retry_count' = [retry_count EXCEPT ![t] = @ + 1]
                /\ obs' = [seen EXCEPT
                              ![t].sleeps = @ + 1,
                              ![t].waits = Append(@,
                                  BackoffWait(DEFAULT_BACKOFF_FACTOR,
                                              retry_count'[t], jitter))]
                /\ pc' = [pc EXCEPT ![t] = "backoff"]
                /\ UNCHANGED outcome
           ELSE /\ Finish(t, Returned(FALSE, MsgError(e)))
                /\ obs' = seen
                /\ UNCHANGED retry_count
    /\ UNCHANGED <<config_vars, client_vars, cache, now, reinit_vars, args,
                   client_info, local_model, budget>>
    /\ UNCHANGED <<disk, unit_vars>>

(* Lines 317 / 324: time.sleep(wait_time) is over; back to the loop test. *)
BackoffWake(t) ==
    /\ pc[t] = "backoff"
    /\ pc' = [pc EXCEPT ![t] = "loop"]
    /\ UNCHANGED <<config_vars, client_vars, cache, now, reinit_vars, args,
                   retry_count, client_info, local_model, outcome, obs, budget>>
    /\ UNCHANGED <<disk, unit_vars>>

(* The caller has taken the result: the thread is ready for its next call. *)
Return(t) ==
    /\ pc[t] = "done"
    /\ pc' = [pc EXCEPT ![t] = "idle"]
    /\ args' = [args EXCEPT ![t] = NoArgs]
    /\ retry_count' = [retry_count EXCEPT ![t] = 0]
    /\ client_info' = [client_info EXCEPT ![t] = NoClient]
    /\ local_model' = [local_model EXCEPT ![t] = ""]
    /\ outcome' = [outcome EXCEPT ![t] = NoOutcome]
    /\ obs' = [obs EXCEPT ![t] = NoObs]
    /\ UNCHANGED <<config_vars, client_vars, cache, now, reinit_vars, budget>>
    /\ UNCHANGED <<disk, unit_vars>>

(***************************************************************************)
(* The other operations: clear_cache, reinit_api_client, configuration     *)
(* edits, and the passage of time.                                         *)
(***************************************************************************)
SpendOp == /\ budget.ops < MaxOps
           /\ budget' = [budget EXCEPT !.ops = @ + 1]

(* APIClient.clear_cache -> ResponseCache.clear. *)
ClearCache ==
    /\ SpendOp
    /\ cache' = EmptyCache
    /\ UNCHANGED <<config_vars, client_vars, now, reinit_vars, thread_vars>>
    /\ UNCHANGED <<disk, unit_vars>>

(* ConfigManager.update_backend(name, enabled=e) (config_api toggle_backend). *)
ToggleBackend(b) ==
    /\ SpendOp
    /\ enabled' = [enabled EXCEPT ![b] = ~@]
    /\ UNCHANGED <<model, client_vars, cache, now, reinit_vars, thread_vars>>
    /\ UNCHANGED <<disk, unit_vars>>

(* ConfigManager.update_backend(name, model=m): setattr runs before        *)
(* validate, so the attribute changes even when validation then fails.     *)
UpdateModel(b, m) ==
    /\ SpendOp
    /\ m # model[b]
    /\ model' = [model EXCEPT ![b] = m]
    /\ UNCHANGED <<enabled, client_vars, cache, now, reinit_vars, thread_vars>>
    /\ UNCHANGED <<disk, unit_vars>>

(* reinit_api_client -> _init_clients, lines 189-194: the list is emptied  *)
(* and the enabled backends are read.  No lock is taken.                   *)
ReinitStart ==
    /\ init_pc = "idle"
    /\ SpendOp
    /\ clients' = <<>>
    /\ init_todo' = get_enabled_backends
    /\ init_pc' = IF get_enabled_backends = <<>> THEN "idle" ELSE "building"
    /\ UNCHANGED <<config_vars, rate_limiters, current_client_index, cache,
                   now, thread_vars>>
    /\ UNCHANGED <<disk, unit_vars>>

(* _init_clients, lines 196-211: one iteration of the loop. *)
ReinitAppend ==
    /\ init_pc = "building"
    /\ LET b == Head(init_todo)
       IN  /\ clients' = Append(clients, b)
           /\ rate_limiters' =
                WithLimiters(rate_limiters, {limiter_key(b, model[b])}, now)
    /\ init_todo' = Tail(init_todo)
    /\ init_pc' = IF Len(init_todo) = 1 THEN "idle" ELSE "building"
    /\ UNCHANGED <<config_vars, current_client_index, cache, now,
                   thread_vars, budget>>
    /\ UNCHANGED <<disk, unit_vars>>

(* Time passes, one ttl at a time (a multiple of the refill interval). *)
TickSteps == {DEFAULT_TTL}

Tick(d) ==
    /\ SpendOp
    /\ now' = now + d
    /\ UNCHANGED <<config_vars, client_vars, cache, reinit_vars, thread_vars>>
    /\ UNCHANGED <<disk, unit_vars>>

(* The arguments of a call. *)
CallArgs == [messages : MessageArgs, use_cache : BOOLEAN,
             max_retries : (-1)..MaxRetriesArg]

GenerateStep(t) ==
    \/ \E a \in CallArgs : Call(t, a.messages, a.use_cache, a.max_retries)
    \/ Attempt(t)
    \/ Acquire(t)
    \/ \E response \in Responses : InvokeOk(t, response)
    \/ \E e \in ErrorClasses : InvokeRaise(t, e, NoJitter)
    \/ BackoffWake(t)

(***************************************************************************)
(* Spec: one generate call with any arguments, on a client constructed     *)
(* from any configuration and persisted cache, while the configuration is  *)
(* edited, the client reinitialized, the cache cleared and time passes.    *)
(***************************************************************************)
Next ==
    \/ \E t \in Threads : GenerateStep(t)
    \/ ClearCache
    \/ \E b \in Backends : ToggleBackend(b)
    \/ \E b \in Backends : \E m \in ModelEdits(b) : UpdateModel(b, m)
    \/ ReinitStart
    \/ ReinitAppend
    \/ \E d \in TickSteps : Tick(d)

Spec == Init /\ [][Next]_vars

(***************************************************************************)
(* SpecSeq: calls made one after the other by the same caller, while       *)
(* backends are enabled or disabled and the client is reinitialized.       *)
(***************************************************************************)
SeqArgs == [messages : {MsgHello}, use_cache : {FALSE},
            max_retries : 1..MaxRetriesArg]

NextSeq ==
    \/ \E t \in Threads :
         \/ \E a \in SeqArgs : Call(t, a.messages, a.use_cache, a.max_retries)
         \/ Attempt(t)
         \/ Acquire(t)
         \/ \E response \in Responses : InvokeOk(t, response)
         \/ \E e \in ErrorClasses : InvokeRaise(t, e, NoJitter)
         \/ BackoffWake(t)
         \/ Return(t)
    \/ \E b \in Backends : ToggleBackend(b)
    \/ ReinitStart
    \/ ReinitAppend

SpecSeq == Init /\ [][NextSeq]_vars

(***************************************************************************)
(* SpecBackoff: calls with the default backoff_factor whose invocations    *)
(* fail or succeed, with every value of the jitter at each backoff.        *)
(***************************************************************************)
NextBackoff ==
    \E t \in Threads :
        \/ \E a \in SeqArgs : Call(t, a.messages, a.use_cache, a.max_retries)
        \/ Attempt(t)
        \/ Acquire(t)
        \/ \E response \in Responses : InvokeOk(t, response)
        \/ \E e \in ErrorClasses : \E jitter \in Jitters :
               InvokeRaise(t, e, jitter)
        \/ BackoffWake(t)
        \/ Return(t)

SpecBackoff == Init /\ [][NextBackoff]_vars

(***************************************************************************)
(* SpecCache: a ResponseCache used on its own.  get, set and clear each    *)
(* run under ResponseCache.lock, so each is one step; callers on any       *)
(* threads give every interleaving of these steps.  A restart is a new     *)
(* process: its ResponseCache(max_size) loads the persisted document.      *)
(* Every operation is appended to `trace` with its result and the time.    *)
(***************************************************************************)
CacheCalls  == {<<MsgHello, "m1">>, <<MsgHello, "m2">>, <<MsgMalformed, "m1">>}
(* The (value, ttl) arguments of set. *)
CacheWrites == {<<"Hello", 2>>, <<"Bye", 0>>}
(* The max_size arguments of ResponseCache(max_size). *)
CacheSizes  == {1, 2}
(* What response_cache.json can hold when a process starts: nothing, or    *)
(* the two entries that a process with max_size = 2 has saved.             *)
CacheDocuments ==
    {NoDocument,
     SaveToDisk(CacheAfterSet(
         CacheAfterSet(EmptyCache, _generate_key(MsgHello, "m1"), "Hello", 2,
                       0, 2),
         _generate_key(MsgHello, "m2"), "Hello", 2, 0, 2))}
Miss        == [some |-> FALSE, value |-> ""]

CacheOp(op, key, value, ttl, result) ==
    [op |-> op, key |-> key, value |-> value, ttl |-> ttl, result |-> result,
     at |-> now]

(* One more operation on the component, written to the trace. *)
Logged(entry) ==
    /\ Len(trace) < MaxTrace
    /\ trace' = Append(trace, entry)

client_all_vars == <<config_vars, client_vars, reinit_vars, thread_vars, budget>>

(* ResponseCache.get, lines 55-69. *)
CacheGet(messages, m) ==
    LET key == _generate_key(messages, m)
    IN  /\ Logged(CacheOp("get", key, "", 0, CacheGetResult(cache, key, now)))
        /\ cache' = CacheAfterGet(cache, key, now)
        /\ UNCHANGED <<disk, max_size, now, client_all_vars, bucket_vars, upc>>

(* How the write of _save_to_disk goes: the document is written; open     *)
(* raises and the file stays as it was; or json.dump raises after open has *)
(* truncated the file.                                                     *)
WriteOutcomes == {"ok", "refused", "torn"}

DiskAfterWrite(doc, c, write) ==
    IF write = "ok" THEN SaveToDisk(c)
    ELSE IF write = "refused" THEN doc
    ELSE CorruptDocument

SetRaisesOnFailure(write) == write # "ok"

(* Lines 101-115 and 89-93: an exception of the write is caught in         *)
(* _save_to_disk (and again in set), so set returns normally.              *)
SetRaises(write) == FALSE

(* ResponseCache.set, lines 71-93, _save_to_disk included: the entry is    *)
(* put into the map first, then the document is written.                   *)
CacheSet(messages, m, value, ttl, write) ==
    LET key == _generate_key(messages, m)
    IN  /\ Logged([op |-> "set", key |-> key, value |-> value, ttl |-> ttl,
                   result |-> Miss, at |-> now, write |-> write,
                   raised |-> SetRaises(write)])
        /\ cache' = CacheAfterSet(cache, key, value, ttl, now, max_size)
        /\ disk' = DiskAfterWrite(disk, cache', write)
        /\ UNCHANGED <<max_size, now, client_all_vars, bucket_vars, upc>>

(* ResponseCache.clear, lines 95-99: the map is emptied, nothing is saved. *)
CacheClear ==
    /\ Logged(CacheOp("clear", <<>>, "", 0, Miss))
    /\ cache' = EmptyCache
    /\ UNCHANGED <<disk, max_size, now, client_all_vars, bucket_vars, upc>>

(* ResponseCache.__init__, lines 44-48, in a new process. *)
CacheRestart(n) ==
    /\ Logged(CacheOp("restart", <<>>, "", 0, Miss))
    /\ max_size' = n
    /\ cache' = LoadFromDisk(disk, now)
    /\ UNCHANGED <<disk, now, client_all_vars, bucket_vars, upc>>

(* One second passes. *)
CacheTick ==
    /\ Logged(CacheOp("tick", <<>>, "", 0, Miss))
    /\ now' = now + 1
    /\ UNCHANGED <<cache, disk, max_size, client_all_vars, bucket_vars, upc>>

(* A new ResponseCache(max_size): it loads the persisted document. *)
InitCache ==
    /\ ClientInit
    /\ \A b \in Backends : enabled[b]
    /\ disk \in CacheDocuments
    /\ cache = LoadFromDisk(disk, 0)
    /\ max_size \in CacheSizes
    /\ NoUnit

NextCache ==
    \/ \E c \in CacheCalls : CacheGet(c[1], c[2])
    \/ \E c \in CacheCalls : \E w \in CacheWrites :
          CacheSet(c[1], c[2], w[1], w[2], "ok")
    \/ CacheClear
    \/ \E n \in CacheSizes : CacheRestart(n)
    \/ CacheTick

SpecCache == InitCache /\ [][NextCache]_vars

(***************************************************************************)
(* SpecStore: a ResponseCache whose persistence is unreliable.  The file   *)
(* found at startup may be missing, cut short, or edited by hand (a        *)
(* timestamp or a ttl that does not parse), and every write of the         *)
(* document may fail.                                                      *)
(***************************************************************************)
StoreCalls  == {<<MsgHello, "m1">>, <<MsgHello, "m2">>}
StoreWrites == {<<"Hello", 2>>}

(* A document of two entries, with the given timestamp text and ttl for    *)
(* the first.                                                              *)
EditedDocument(timestamp, ttl) ==
    Document([k \in {_generate_key(c[1], c[2]) : c \in StoreCalls} |->
                 IF k = _generate_key(MsgHello, "m1")
                 THEN [value |-> "Bye", timestamp |-> timestamp, ttl |-> ttl,
                       order |-> 1]
                 ELSE [value |-> "Hello", timestamp |-> isoformat(0),
                       ttl |-> JsonNumber(2), order |-> 2]])

StoreDocuments ==
    {NoDocument, CorruptDocument, EditedDocument(Unparsable, JsonNumber(2)),
     EditedDocument(isoformat(0), BadTtl)}

InitStore ==
    /\ ClientInit
    /\ \A b \in Backends : enabled[b]
    /\ disk \in StoreDocuments
    /\ cache = LoadFromDisk(disk, 0)
    /\ max_size \in CacheSizes
    /\ NoUnit

NextStore ==
    \/ \E c \in StoreCalls : CacheGet(c[1], c[2])
    \/ \E c \in StoreCalls : \E w \in StoreWrites :
          \E write \in WriteOutcomes : CacheSet(c[1], c[2], w[1], w[2], write)
    \/ CacheClear
    \/ \E n \in CacheSizes : CacheRestart(n)
    \/ CacheTick

SpecStore == InitStore /\ [][NextStore]_vars

(***************************************************************************)
(* SpecLimiter: a RateLimiter used on its own by several callers.          *)
(* acquire runs under RateLimiter.lock from entry to return, the sleep of  *)
(* a blocking caller included, so a caller that sleeps keeps the others    *)
(* out.  The clock moves by refill intervals (window / rate seconds), so   *)
(* the token count is always a whole number.  `trace` holds the last       *)
(* acquire that returned; its `streak` counts the non-blocking acquire(1)  *)
(* calls that returned true one after the other, with no time elapsing,    *)
(* since the bucket was full; its `served` counts the acquires that        *)
(* returned true for as long as every call was a blocking acquire(1).      *)
(***************************************************************************)
LimiterRates    == {2, 5}
LimiterRequests == {1, 3}

RefillInterval(l) == l.window \div l.rate

(* The length of the run of such calls that the last return ended, when no *)
(* time has elapsed since.                                                 *)
Streak == IF trace # <<>> /\ trace[1].at = now THEN trace[1].streak ELSE 0

(* Every call that returned so far was acquire(1, blocking = True). *)
OnlyBlockingOnes == trace = <<>> \/ trace[1].only_blocking_ones

Served == IF trace = <<>> THEN 0 ELSE trace[1].served

(* acquire(n, blocking) of caller u returns `result`. *)
Returns(u, n, blocking, result, found, elapsed, refilled, slept, t) ==
    /\ trace' = << [op |-> "acquire", caller |-> u, k |-> n,
                    blocking |-> blocking, result |-> result,
                    found |-> found, elapsed |-> elapsed,
                    refilled |-> refilled, slept |-> slept, at |-> t,
                    prior |-> IF found = bucket.rate THEN 0 ELSE Streak,
                    streak |->
                        IF ~(result /\ ~blocking /\ n = 1) THEN 0
                        ELSE IF found = bucket.rate THEN 1
                        ELSE IF Streak > 0 THEN Streak + 1
                        ELSE 0,
                    only_blocking_ones |->
                        OnlyBlockingOnes /\ blocking /\ n = 1,
                    served |->
                        IF OnlyBlockingOnes /\ blocking /\ n = 1
                        THEN Served + 1 ELSE 0] >>
    /\ upc' = [upc EXCEPT ![u] = IdleCaller]

(* A caller calls acquire(tokens = n, blocking) and comes to the lock. *)
AcquireCall(u, n, blocking) ==
    /\ upc[u].at = "idle"
    /\ now < MaxIdle * RefillInterval(bucket)
    /\ upc' = [upc EXCEPT ![u] =
                  [at |-> "entering", k |-> n, blocking |-> blocking]]
    /\ UNCHANGED <<cache, disk, max_size, now, client_all_vars, bucket_vars,
                   trace>>

(* Lines 154-172 up to the sleep: the caller takes the lock, refills, and  *)
(* either deducts and returns true, or returns false, or starts to sleep   *)
(* with the lock held.                                                     *)
AcquireEnter(u) ==
    /\ upc[u].at = "entering"
    /\ bucket_lock = NoHolder
    /\ LET n         == upc[u].k
           available == Refilled(bucket, now)
           found     == bucket.tokens
           elapsed   == now - bucket.last_update
       IN  IF Sufficient(available, n)
           THEN /\ bucket' = [bucket EXCEPT !.tokens = available - n,
                                            !.last_update = now]
                /\ Returns(u, n, upc[u].blocking, TRUE, found, elapsed, available,
                           0, now)
                /\ UNCHANGED bucket_lock
           ELSE IF upc[u].blocking
           THEN /\ bucket' = AfterRefusal(bucket, available, now)
                /\ bucket_lock' = u
                /\ upc' = [upc EXCEPT ![u] =
                              [at |-> "sleeping", k |-> n, blocking |-> TRUE,
                               found |-> found, elapsed |-> elapsed,
                               available |-> available,
                               wait |-> WaitTime(bucket, n, available)]]
                /\ UNCHANGED trace
           ELSE /\ bucket' = AfterRefusal(bucket, available, now)
                /\ Returns(u, n, FALSE, FALSE, found, elapsed, available, 0, now)
                /\ UNCHANGED bucket_lock
    /\ UNCHANGED <<cache, disk, max_size, now, client_all_vars>>

(* Lines 168-170: the sleep is over; the bucket is set to zero, the caller *)
(* returns true and the lock is released.                                  *)
AcquireWake(u) ==
    /\ upc[u].at = "sleeping"
    /\ now' = now + upc[u].wait
    /\ bucket' = [bucket EXCEPT !.tokens = 0]
    /\ bucket_lock' = NoHolder
    /\ Returns(u, upc[u].k, TRUE, TRUE, upc[u].found, upc[u].elapsed,
               upc[u].available, upc[u].wait, now + upc[u].wait)
    /\ UNCHANGED <<cache, disk, max_size, client_all_vars>>

(* One refill interval passes while no caller sleeps. *)
LimiterTick ==
    /\ bucket_lock = NoHolder
    /\ now < MaxIdle * RefillInterval(bucket)
    /\ now' = now + RefillInterval(bucket)
    /\ UNCHANGED <<cache, disk, max_size, client_all_vars, bucket_vars, upc,
                   trace>>

(* RateLimiter(rate, window) at time 0: the bucket is full. *)
InitLimiter ==
    /\ ClientInit
    /\ \A b \in Backends : enabled[b]
    /\ disk = NoDocument
    /\ cache = EmptyCache
    /\ max_size = MAX_CACHE_SIZE
    /\ \E rate \in LimiterRates :
          bucket = RateLimiter(rate, LIMITER_WINDOW, 0)
    /\ bucket_lock = NoHolder
    /\ upc = [u \in Callers |-> IdleCaller]
    /\ trace = <<>>

NextLimiter ==
    \/ \E u \in Callers : \E n \in LimiterRequests : \E blocking \in BOOLEAN :
          AcquireCall(u, n, blocking)
    \/ \E u \in Callers : AcquireEnter(u)
    \/ \E u \in Callers : AcquireWake(u)
    \/ LimiterTick

SpecLimiter == InitLimiter /\ [][NextLimiter]_vars

(* The scheduler runs a caller that can run: a sleep ends, and a caller    *)
(* waiting for the lock gets it once it is free often enough.              *)
SpecLimiterFair ==
    /\ SpecLimiter
    /\ \A u \in Callers : WF_vars(AcquireWake(u))
    /\ \A u \in Callers : SF_vars(AcquireEnter(u))

(***************************************************************************)
(* SpecNext: calls of APIClient._get_next_client by several callers, with  *)
(* the configuration edited and the client list rebuilt between calls.     *)
(* `trace` holds the calls that returned since the list was last built, in *)
(* the order in which they held APIClient.lock.                            *)
(***************************************************************************)
IndexError == "IndexError"

NextOp(u, result) == [op |-> "next", caller |-> u, result |-> result]

(* Lines 220-221: `if not self.clients: return None`, before the lock. *)
NextCheck(u) ==
    /\ upc[u].at = "idle"
    /\ Len(trace) < MaxTrace
    /\ IF clients = <<>>
       THEN /\ trace' = Append(trace, NextOp(u, NoBackend))
            /\ UNCHANGED upc
       ELSE /\ upc' = [upc EXCEPT ![u] = [at |-> "checked"]]
            /\ UNCHANGED trace
    /\ UNCHANGED <<cache, disk, max_size, now, client_all_vars, bucket_vars>>

(* Lines 222-227, under the lock: the client at the cursor is read (an     *)
(* IndexError when the cursor is past the end of the list), the cursor     *)
(* moves on and the client is returned.                                    *)
NextPick(u) ==
    /\ upc[u].at = "checked"
    /\ LET idx == current_client_index
       IN  IF idx < Len(clients)
           THEN /\ trace' = Append(trace, NextOp(u, clients[idx + 1]))
                /\ current_client_index' = NextIndex(idx, Len(clients))
           ELSE /\ trace' = Append(trace, NextOp(u, IndexError))
                /\ UNCHANGED current_client_index
    /\ upc' = [upc EXCEPT ![u] = IdleCaller]
    /\ UNCHANGED <<cache, disk, max_size, now, config_vars, clients,
                   rate_limiters, reinit_vars, thread_vars, budget,
                   bucket_vars>>

(* ConfigManager.update_backend(name, enabled = not enabled). *)
NextToggle(b) ==
    /\ enabled' = [enabled EXCEPT ![b] = ~@]
    /\ UNCHANGED <<model, client_vars, cache, disk, max_size, now,
                   reinit_vars, thread_vars, budget, unit_vars>>

(* reinit_api_client -> _init_clients, lines 187-216, run from start to    *)
(* end while no caller is inside _get_next_client: the list is rebuilt     *)
(* from the enabled backends and the cursor is left as it is.              *)
NextReinit ==
    /\ \A u \in Callers : upc[u].at = "idle"
    /\ clients' = get_enabled_backends
    /\ rate_limiters' =
         WithLimiters(rate_limiters,
                      {limiter_key(b, model[b]) : b \in Range(clients')}, now)
    /\ trace' = <<>>
    /\ UNCHANGED <<config_vars, current_client_index, cache, disk, max_size,
                   now, reinit_vars, thread_vars, budget, bucket_vars, upc>>

InitNext ==
    /\ ClientInit
    /\ disk = NoDocument
    /\ cache = EmptyCache
    /\ max_size = MAX_CACHE_SIZE
    /\ NoUnit

NextNext ==
    \/ \E u \in Callers : NextCheck(u)
    \/ \E u \in Callers : NextPick(u)
    \/ \E b \in Backends : NextToggle(b)
    \/ NextReinit

SpecNext == InitNext /\ [][NextNext]_vars

(***************************************************************************)
(* SpecTest: APIClient.test_backends called by several callers while the   *)
(* configuration is edited.  Each request is a network call, so the loop   *)
(* of lines 340-359 is one step per backend.  `trace` holds the call that  *)
(* returned last: the backends it was to test, the requests it made, the   *)
(* requests that raised, and the dictionary it returned.                   *)
(***************************************************************************)
RemainingAfterAbort(todo, raised) == IF raised THEN <<>> ELSE Tail(todo)

(* Lines 340 and 355-357: the except clause is inside the loop body, so    *)
(* the loop goes on with the next backend whether or not the request       *)
(* raised.                                                                 *)
RemainingAfter(todo, raised) == Tail(todo)

(* Lines 335-340: results = {} and the enabled backends are read. *)
TestStart(u) ==
    /\ upc[u].at = "idle"
    /\ upc' = [upc EXCEPT ![u] =
                  [at |-> "testing", asked |-> get_enabled_backends,
                   todo |-> get_enabled_backends,
                   requests |-> [b \in Backends |-> 0],
                   raised |-> {}, results |-> EmptyCache]]
    /\ UNCHANGED <<cache, disk, max_size, now, client_all_vars, bucket_vars,
                   trace>>

(* Lines 341-357: the request for the next backend returns (line 353) or   *)
(* raises (lines 355-356).                                                 *)
TestRequest(u, raises) ==
    /\ upc[u].at = "testing"
    /\ upc[u].todo # <<>>
    /\ LET b == Head(upc[u].todo)
       IN  upc' = [upc EXCEPT
                      ![u].todo = RemainingAfter(@, raises),
                      ![u].requests[b] = @ + 1,
                      ![u].raised = IF raises THEN @ \cup {b} ELSE @,
                      ![u].results =
                          [n \in DOMAIN @ \cup {b} |->
                              IF n = b THEN ~raises ELSE @[n]]]
    /\ UNCHANGED <<cache, disk, max_size, now, client_all_vars, bucket_vars,
                   trace>>

(* Line 359: return results. *)
TestReturn(u) ==
    /\ upc[u].at = "testing"
    /\ upc[u].todo = <<>>
    /\ trace' = << [op |-> "test_backends", caller |-> u,
                    asked |-> upc[u].asked,
                    requests |-> upc[u].requests,
                    raised |-> upc[u].raised,
                    results |-> upc[u].results] >>
    /\ upc' = [upc EXCEPT ![u] = IdleCaller]
    /\ UNCHANGED <<cache, disk, max_size, now, client_all_vars, bucket_vars>>

InitTest ==
    /\ ClientInit
    /\ disk \in {SaveToDisk(c) : c \in PersistedCaches}
    /\ cache = LoadFromDisk(disk, 0)
    /\ max_size = MAX_CACHE_SIZE
    /\ NoUnit

NextTest ==
    \/ \E u \in Callers : TestStart(u)
    \/ \E u \in Callers : \E raises \in BOOLEAN : TestRequest(u, raises)
    \/ \E u \in Callers : TestReturn(u)
    \/ \E b \in Backends : NextToggle(b)

SpecTest == InitTest /\ [][NextTest]_vars

(***************************************************************************)
(* SpecPair: generate called by two callers at once, with the same         *)
(* messages and max_retries = 1, while the model of a backend is edited.   *)
(* Each caller moves one step at a time between the points where another   *)
(* thread can run: the locks of _get_next_client, of ResponseCache and of  *)
(* RateLimiter make those three steps atomic, and nothing else is locked.  *)
(* `trace` counts, per limiter key, the limiters created by generate and   *)
(* the acquires that returned, and per model the backend invocations       *)
(* completed for calls that use the cache and the result of the first.     *)
(***************************************************************************)
LimiterKeys == { limiter_key(b, m) : b \in Backends, m \in Models }

NoPairTrace == [created     |-> [k \in LimiterKeys |-> 0],
                acquired    |-> [k \in LimiterKeys |-> 0],
                invocations |-> [m \in Models |-> 0],
                first       |-> [m \in Models |-> ""],
                hits        |-> 0]

pair_frame == <<now, reinit_vars, thread_vars, max_size, bucket_vars>>

(* Lines 236-262: the entry checks pass or the call returns a failure. *)
PairCall(u, use_cache) ==
    /\ upc[u].at = "idle"
    /\ budget.calls < MaxCalls
    /\ budget' = [budget EXCEPT !.calls = @ + 1]
    /\ IF get_enabled_backends = <<>>
       THEN UNCHANGED upc
       ELSE upc' = [upc EXCEPT ![u] = [at |-> "loop", use_cache |-> use_cache]]
    /\ UNCHANGED <<config_vars, client_vars, cache, disk, trace, pair_frame>>

(* Lines 263-269: _get_next_client, then model = backend.model (the live   *)
(* attribute) and the limiter key.                                         *)
PairSelect(u) ==
    /\ upc[u].at = "loop"
    /\ LET idx == current_client_index
       IN  IF clients = <<>> \/ ~(idx < Len(clients))
           THEN /\ upc' = [upc EXCEPT ![u] = IdleCaller]
                /\ UNCHANGED current_client_index
           ELSE /\ current_client_index' = NextIndex(idx, Len(clients))
                /\ upc' = [upc EXCEPT ![u] =
                             [at |-> "check", use_cache |-> @.use_cache,
                              backend |-> clients[idx + 1],
                              model |-> model[clients[idx + 1]]]]
    /\ UNCHANGED <<config_vars, clients, rate_limiters, cache, disk, trace,
                   budget, pair_frame>>

(* Line 272: if limiter_key not in self.rate_limiters. *)
PairCheckLimiter(u) ==
    /\ upc[u].at = "check"
    /\ upc' = [upc EXCEPT ![u].at =
                 IF limiter_key(upc[u].backend, upc[u].model)
                        \notin DOMAIN rate_limiters
                 THEN "create" ELSE "lookup"]
    /\ UNCHANGED <<config_vars, client_vars, cache, disk, trace, budget,
                   pair_frame>>

(* Line 273: self.rate_limiters[limiter_key] = RateLimiter(rate=10,        *)
(* window=60): the item is assigned whether or not the key is there now.   *)
PairCreateLimiter(u) ==
    /\ upc[u].at = "create"
    /\ LET key == limiter_key(upc[u].backend, upc[u].model)
       IN  /\ rate_limiters' =
                 [k \in DOMAIN rate_limiters \cup {key} |->
                     IF k = key
                     THEN RateLimiter(LIMITER_RATE, LIMITER_WINDOW, now)
                     ELSE rate_limiters[k]]
           /\ trace' = [trace EXCEPT !.created[key] = @ + 1]
    /\ upc' = [upc EXCEPT ![u].at = "lookup"]
    /\ UNCHANGED <<config_vars, clients, current_client_index, cache, disk,
                   budget, pair_frame>>

(* Lines 275-279: the cache lookup, when use_cache and model. *)
PairLookup(u) ==
    /\ upc[u].at = "lookup"
    /\ LET key    == _generate_key(MsgHello, upc[u].model)
           cached == CacheGetResult(cache, key, now)
       IN  IF ~ShouldUseCache(upc[u].use_cache, upc[u].model)
           THEN /\ upc' = [upc EXCEPT ![u].at = "acquire"]
                /\ UNCHANGED <<cache, trace>>
           ELSE /\ cache' = CacheAfterGet(cache, key, now)
                /\ IF IsHit(cached)
                   THEN /\ upc' = [upc EXCEPT ![u] = IdleCaller]
                        /\ trace' = [trace EXCEPT !.hits = @ + 1]
                   ELSE /\ upc' = [upc EXCEPT ![u].at = "acquire"]
                        /\ UNCHANGED trace
    /\ UNCHANGED <<config_vars, client_vars, disk, budget, pair_frame>>

(* Line 283: self.rate_limiters[limiter_key].acquire(blocking=True), on    *)
(* the limiter the registry holds for the key at this moment.              *)
PairAcquire(u) ==
    /\ upc[u].at = "acquire"
    /\ LET key == limiter_key(upc[u].backend, upc[u].model)
       IN  /\ rate_limiters' = [rate_limiters EXCEPT ![key] =
                                   AfterBlockingAcquire(@, 1, now)]
           /\ trace' = [trace EXCEPT !.acquired[key] = @ + 1]
    /\ upc' = [upc EXCEPT ![u].at = "invoke"]
    /\ UNCHANGED <<config_vars, clients, current_client_index, cache, disk,
                   budget, pair_frame>>

(* The invocation of a call that uses the cache is counted under its model. *)
PairInvoked(u, result) ==
    LET m == upc[u].model
    IN  IF ShouldUseCache(upc[u].use_cache, m)
        THEN [trace EXCEPT !.invocations[m] = @ + 1,
                           !.first[m] = IF @ = "" THEN result ELSE @]
        ELSE trace

(* Lines 287-303: the backend returns `response` and the text is extracted. *)
PairInvokeOk(u, response) ==
    /\ upc[u].at = "invoke"
    /\ upc' = [upc EXCEPT ![u] =
                 [at |-> "store", use_cache |-> @.use_cache,
                  backend |-> @.backend, model |-> @.model,
                  content |-> ExtractContent(response)]]
    /\ trace' = PairInvoked(u, IF Truthy(ExtractContent(response))
                               THEN "ok" ELSE "empty")
    /\ UNCHANGED <<config_vars, client_vars, cache, disk, budget, pair_frame>>

(* Lines 305-310: the text is written to the cache and returned. *)
PairStore(u) ==
    /\ upc[u].at = "store"
    /\ IF ShouldUseCache(upc[u].use_cache, upc[u].model)
       THEN /\ cache' = CacheAfterSet(cache,
                                      _generate_key(MsgHello, upc[u].model),
                                      upc[u].content, DEFAULT_TTL, now,
                                      max_size)
            /\ disk' = SaveToDisk(cache')
       ELSE UNCHANGED <<cache, disk>>
    /\ upc' = [upc EXCEPT ![u] = IdleCaller]
    /\ UNCHANGED <<config_vars, client_vars, trace, budget, pair_frame>>

(* Lines 312-331: the backend raises; with max_retries = 1 the call        *)
(* returns a failure from whichever handler takes the exception.           *)
PairInvokeRaise(u) ==
    /\ upc[u].at = "invoke"
    /\ upc' = [upc EXCEPT ![u] = IdleCaller]
    /\ trace' = PairInvoked(u, "error")
    /\ UNCHANGED <<config_vars, client_vars, cache, disk, budget, pair_frame>>

(* ConfigManager.update_backend(name, model = m). *)
PairUpdateModel(b, m) ==
    /\ SpendOp
    /\ model[b] # m
    /\ model' = [model EXCEPT ![b] = m]
    /\ UNCHANGED <<enabled, client_vars, cache, disk, upc, trace, pair_frame>>

InitPair ==
    /\ ClientInit
    /\ disk = NoDocument
    /\ cache = EmptyCache
    /\ max_size = MAX_CACHE_SIZE
    /\ bucket = RateLimiter(LIMITER_RATE, LIMITER_WINDOW, 0)
    /\ bucket_lock = NoHolder
    /\ upc = [u \in Callers |-> IdleCaller]
    /\ trace = NoPairTrace

NextPair ==
    \/ \E u \in Callers : \E use_cache \in BOOLEAN : PairCall(u, use_cache)
    \/ \E u \in Callers : PairSelect(u)
    \/ \E u \in Callers : PairCheckLimiter(u)
    \/ \E u \in Callers : PairCreateLimiter(u)
    \/ \E u \in Callers : PairLookup(u)
    \/ \E u \in Callers : PairAcquire(u)
    \/ \E u \in Callers : \E response \in Responses : PairInvokeOk(u, response)
    \/ \E u \in Callers : PairStore(u)
    \/ \E u \in Callers : PairInvokeRaise(u)
    \/ \E b \in Backends : \E m \in Models : PairUpdateModel(b, m)

SpecPair == InitPair /\ [][NextPair]_vars

(***************************************************************************)
(* Properties of generate.                                                 *)
(***************************************************************************)
Retryable == {"RateLimitError", "TransientAPIError"}

(* The call of thread t got past the entry checks of lines 248-254. *)
PassedEntry(t) ==
    /\ outcome[t] # Returned(FALSE, MsgNoBackend)
    /\ outcome[t] # Returned(FALSE, MsgBadMessages)

(* C1: generate never lets an exception escape to its caller: whatever the *)
(* backends do, and also after or during a reinitialization that replaces  *)
(* the backend list, a call ends by returning, never by raising.           *)
C1_NoExceptionEscapes ==
    \A t \in Threads : outcome[t].kind # "raise"

(* C2: a generate call makes at most max_retries backend invocations; with *)
(* max_retries <= 0 it makes none and its result is a failure.             *)
C2_AtMostMaxRetries ==
    \A t \in Threads :
        /\ args[t].max_retries > 0 =>
               obs[t].invocations <= args[t].max_retries
        /\ args[t].max_retries <= 0 =>
               /\ obs[t].invocations = 0
               /\ pc[t] = "done" =>
                      outcome[t].kind = "return" /\ ~outcome[t].success

C2_Witness ==
    \E t \in Threads :
        /\ pc[t] = "done"
        /\ args[t].max_retries = MaxRetriesArg
        /\ obs[t].invocations = MaxRetriesArg

(* The case of C3: a finished call with max_retries >= 1 that passed the   *)
(* entry checks, had no cache hit, and whose backend invocations all       *)
(* raised a rate-limit or transient error.                                 *)
C3_Case(t) ==
    /\ pc[t] = "done"
    /\ args[t].max_retries >= 1
    /\ PassedEntry(t)
    /\ ~obs[t].hit
    /\ ~obs[t].ok
    /\ obs[t].errors \subseteq Retryable

C3_Exhausted(t) ==
    /\ obs[t].invocations = args[t].max_retries
    /\ outcome[t] = Returned(FALSE, MsgRetries(args[t].max_retries))

C4_UnclassifiedErrorEndsCall ==
    \A t \in Threads :
        obs[t].first = "Other" =>
            /\ pc[t] = "done"
            /\ obs[t].invocations = 1
            /\ obs[t].sleeps = 0
            /\ obs[t].cache_sets = 0
            /\ retry_count[t] = 0
            /\ outcome[t] = Returned(FALSE, MsgError("Other"))

C4_Witness ==
    \E t \in Threads :
        /\ obs[t].first = "Other"
        /\ args[t].max_retries = MaxRetriesArg
        /\ args[t].use_cache

(* C5: only rate-limit and transient errors are retried: an invocation     *)
(* that raises any other error (an authentication failure, a rejected      *)
(* request) ends the call with that error's failure, without a retry.      *)
C5_OnlyRetryableRetried ==
    \A t \in Threads :
        \A e \in obs[t].errors \ Retryable :
            /\ pc[t] = "done"
            /\ outcome[t] = Returned(FALSE, MsgError(e))

(* C6: when a lookup made with use_cache = true finds an unexpired entry   *)
(* for (messages, the selected backend's model), generate returns          *)
(* (true, the stored value) from that attempt, whatever the stored text,   *)
(* without acquiring a token or invoking a backend.                        *)
C6_UnexpiredEntryIsReturned ==
    \A t \in Threads :
        obs[t].cached.some =>
            /\ pc[t] = "done"
            /\ obs[t].hit
            /\ outcome[t] = Returned(TRUE, Text(obs[t].cached.value))

(* The step in which the call of thread t returns after a backend          *)
(* invocation that succeeded.                                              *)
ReturnsFromBackend(t) == ~obs[t].ok /\ obs'[t].ok /\ pc'[t] = "done"

(* The returned text is in the cache under (messages, model). *)
C7_Stored(t) ==
    LET key == _generate_key(args[t].messages, local_model[t])
    IN  /\ outcome'[t].kind = "return"
        /\ outcome'[t].success
        /\ key \in DOMAIN cache'
        /\ outcome'[t].payload = Text(cache'[key].value)
        /\ cache = EmptyCache => get_cache_stats'.total_entries = 1

(* C7 as stated: when a backend invocation succeeds and use_cache = true,  *)
(* generate returns (true, extracted text) and on return the cache holds   *)
(* an entry for (messages, model) with that text; from an empty cache      *)
(* get_cache_stats then reports total_entries = 1.                         *)
C7_SuccessIsCached ==
    [][\A t \in Threads :
          ReturnsFromBackend(t) /\ args[t].use_cache => C7_Stored(t)]_vars

(* C7, amended: the same, provided the selected backend's model name is    *)
(* not empty; with an empty model name generate returns (true, text) and   *)
(* leaves the cache as it is.                                              *)
C7_SuccessIsCachedUnderModel ==
    [][\A t \in Threads :
          ReturnsFromBackend(t) /\ args[t].use_cache =>
              IF Truthy(local_model[t])
              THEN C7_Stored(t)
              ELSE /\ outcome'[t].kind = "return"
                   /\ outcome'[t].success
                   /\ cache' = cache]_vars

C7_Witness ==
    \E t \in Threads :
        /\ pc[t] = "done"
        /\ obs[t].ok
        /\ args[t].use_cache
        /\ obs[t].cache_sets = 1
        /\ _generate_key(args[t].messages, local_model[t]) \in DOMAIN cache
        /\ get_cache_stats.total_entries = 1

(* C8: with no backend enabled in the configuration when generate is       *)
(* called, it returns (false, no-backend message) at once: no invocation,  *)
(* sleep, limiter acquire, cache access or cursor advance.  The check is   *)
(* made once, at entry: no later step of a call returns that failure.      *)
C8_NoBackendFailsAtEntry ==
    [][\A t \in Threads :
          /\ (pc[t] = "idle" /\ pc'[t] # "idle"
                  /\ \A b \in Backends : ~enabled[b]) =>
                 /\ pc'[t] = "done"
                 /\ outcome'[t] = Returned(FALSE, MsgNoBackend)
                 /\ obs'[t] = [NoObs EXCEPT !.no_backend_checks = 1]
                 /\ UNCHANGED <<cache, rate_limiters, current_client_index>>
          /\ (outcome'[t] = Returned(FALSE, MsgNoBackend)
                  /\ outcome[t] # outcome'[t]) =>
                 pc[t] = "idle"
          /\ obs'[t].no_backend_checks <= 1]_vars

C8_Witness ==
    \E t \in Threads :
        /\ pc[t] = "done"
        /\ outcome[t] = Returned(FALSE, MsgNoBackend)
        /\ IsNonEmptyList(args[t].messages)
        /\ args[t].max_retries > 0

(* A non-empty list of role/content pairs. *)
WellFormed(messages) ==
    /\ IsNonEmptyList(messages)
    /\ \A i \in 1..Len(messages.items) : messages.items[i].pair

(* C9: when messages is not a list, is empty, or has an element that is no *)
(* role/content pair, generate returns a failure immediately: no backend   *)
(* invocation, no retry counted, no limiter acquire, no cursor advance.    *)
C9_MalformedMessagesRejected ==
    \A t \in Threads :
        (pc[t] # "idle" /\ ~WellFormed(args[t].messages)) =>
            /\ pc[t] = "done"
            /\ outcome[t].kind = "return"
            /\ ~outcome[t].success
            /\ obs[t].invocations = 0
            /\ obs[t].acquires = 0
            /\ obs[t].selections = 0
            /\ retry_count[t] = 0

(* C10: a call with use_cache = false neither reads nor writes the cache:  *)
(* none of its steps changes the cache, it makes no lookup and no store,   *)
(* and a success it returns comes from a backend invocation, also when an  *)
(* unexpired entry exists for the same messages and model.                 *)
C10_NoCacheAccess ==
    [][\A t \in Threads :
          (pc'[t] # "idle" /\ ~args'[t].use_cache) =>
              /\ (pc'[t] # pc[t] \/ obs'[t] # obs[t]) => cache' = cache
              /\ obs'[t].cache_gets = 0
              /\ obs'[t].cache_sets = 0
              /\ ~obs'[t].hit
              /\ outcome'[t].success => obs'[t].ok]_vars

C10_Witness ==
    \E t \in Threads :
        /\ pc[t] = "done"
        /\ ~args[t].use_cache
        /\ outcome[t].success
        /\ obs[t].invocations = 1
        /\ IsHit(CacheGetResult(cache,
                   _generate_key(args[t].messages, local_model[t]), now))

(***************************************************************************)
(* Properties of ResponseCache.                                            *)
(***************************************************************************)
(* The step appends an operation `op` to the trace. *)
Does(op) ==
    /\ Len(trace') = Len(trace) + 1
    /\ trace'[Len(trace')].op = op

Done == trace'[Len(trace')]

Oldest(k) ==
    /\ k \in DOMAIN cache
    /\ \A j \in DOMAIN cache : cache[k].timestamp <= cache[j].timestamp

(* The entries of the map other than `key` are after the step what they    *)
(* were before it.                                                         *)
OthersKept(key) ==
    \A j \in DOMAIN cache' \ {key} : j \in DOMAIN cache /\ cache'[j] = cache[j]

(* The operations of the trace, the passage of time left out. *)
Calls == SelectSeq(trace, LAMBDA e : e.op # "tick")

(* The last n calls are sets of n different keys. *)
LastSetsDistinct(n) ==
    /\ Len(Calls) >= n
    /\ \A i \in (Len(Calls) - n + 1)..Len(Calls) :
          /\ Calls[i].op = "set"
          /\ \A j \in (Len(Calls) - n + 1)..Len(Calls) :
                i # j => Calls[i].key # Calls[j].key

(* C11: in every reachable state of a ResponseCache, after the startup     *)
(* load and after any sequence of get, set and clear, the map holds at     *)
(* most max_size entries.                                                  *)
C11_SizeAtMostMax ==
    Cardinality(DOMAIN cache) <= max_size

(* C12: inserting max_size + 1 distinct keys with set leaves exactly       *)
(* max_size entries, and a set that finds the map full removes one entry,  *)
(* whose timestamp is the oldest of those present, before it writes.       *)
C12_EvictsOldest ==
    [][/\ LastSetsDistinct(max_size + 1)' =>
              Cardinality(DOMAIN cache') = max_size
       /\ Does("set") =>
              /\ Done.key \in DOMAIN cache'
              /\ OthersKept(Done.key)
              /\ IF Cardinality(DOMAIN cache) >= max_size
                 THEN \E k \in DOMAIN cache :
                         /\ Oldest(k)
                         /\ DOMAIN cache' = (DOMAIN cache \ {k}) \cup {Done.key}
                 ELSE DOMAIN cache' = DOMAIN cache \cup {Done.key}]_vars

C12_Witness ==
    /\ max_size = 2
    /\ LastSetsDistinct(max_size + 1)
    /\ Cardinality(DOMAIN cache) = max_size
    /\ Calls[Len(Calls)].key \in DOMAIN cache
    /\ Calls[Len(Calls) - max_size].key \notin DOMAIN cache

(* C13: get returns the stored value if and only if the key has an entry   *)
(* and now - timestamp < ttl; otherwise it returns a miss, and an entry    *)
(* that exists but has expired (exactly ttl elapsed and ttl = 0 included)  *)
(* is removed from the map by the get.                                     *)
C13_GetServesUnexpired ==
    [][Does("get") =>
          LET key   == Done.key
              has   == key \in DOMAIN cache
              fresh == has /\ now - cache[key].timestamp < cache[key].ttl
          IN  /\ Done.result.some <=> fresh
              /\ fresh => Done.result.value = cache[key].value
              /\ ~fresh => Done.result = Miss
              /\ (has /\ ~fresh) =>
                     /\ DOMAIN cache' = DOMAIN cache \ {key}
                     /\ OthersKept(key)
              /\ (fresh \/ ~has) => cache' = cache]_vars

(* A get missed an entry set exactly ttl seconds before, ttl > 0 or = 0. *)
C13_Witness ==
    \E i, j \in 1..Len(trace) :
        /\ j < i
        /\ trace[j].op = "set"
        /\ trace[i].op = "get"
        /\ trace[i].key = trace[j].key
        /\ \A m \in (j + 1)..(i - 1) : trace[m].op = "tick"
        /\ trace[j].ttl > 0
        /\ trace[i].at - trace[j].at = trace[j].ttl
        /\ trace[i].result = Miss
        /\ trace[i].key \notin DOMAIN cache

(* The set that wrote the entry a get of trace[i].key at place i looks up. *)
WrittenBy(i) ==
    LET js == {j \in 1..(i - 1) :
                  trace[j].op = "set" /\ trace[j].key = trace[i].key}
    IN  CHOOSE j \in js : \A m \in js : m <= j

(* The gets at places i < j are two consecutive gets of one key, the first *)
(* a hit and the second made within the entry's ttl.                       *)
ConsecutiveGets(i, j) ==
    /\ i < j
    /\ trace[i].op = "get"
    /\ trace[j].op = "get"
    /\ trace[i].key = trace[j].key
    /\ \A m \in (i + 1)..(j - 1) : trace[m].op = "tick"
    /\ trace[i].result.some
    /\ \E w \in 1..(i - 1) : trace[w].op = "set" /\ trace[w].key = trace[i].key
    /\ trace[j].at - trace[WrittenBy(i)].at < trace[WrittenBy(i)].ttl

(* C14: two consecutive gets of one (messages, model) made within the      *)
(* entry's ttl with no set between them return identical values, and a get *)
(* that hits leaves the map (keys, values, timestamps) unchanged.          *)
C14_GetIsRepeatable ==
    [][/\ \A i, j \in 1..Len(trace') :
             ConsecutiveGets(i, j)' => trace'[j].result = trace'[i].result
       /\ (Does("get") /\ Done.result.some) => cache' = cache]_vars

C14_Witness ==
    \E i, j \in 1..Len(trace) :
        /\ ConsecutiveGets(i, j)
        /\ trace[j].at > trace[i].at
        /\ trace[j].result.some
        /\ trace[j].result.value = "Hello"

(* C15: after clear() returns the map is empty, and every later get        *)
(* returns a miss for a key whose only set calls happened before the       *)
(* clear: no value written before the clear is served after it.            *)
C15_ClearedIsNeverServed ==
    /\ \A i \in 1..Len(trace) :
          (trace[i].op = "clear" /\ i = Len(trace)) => cache = EmptyCache
    /\ \A i, j \in 1..Len(trace) :
          (/\ i < j
           /\ trace[i].op = "clear"
           /\ trace[j].op = "get"
           /\ \A m \in (i + 1)..(j - 1) :
                 ~(trace[m].op = "set" /\ trace[m].key = trace[j].key))
          => trace[j].result = Miss

(***************************************************************************)
(* Properties of RateLimiter.                                              *)
(***************************************************************************)
(* Caller u returns from acquire in this step. *)
ReturnsFrom(u) == upc[u].at # "idle" /\ upc'[u].at = "idle"

NonBlockingOne(u) ==
    /\ upc[u].at = "entering" /\ upc[u].k = 1 /\ ~upc[u].blocking
    /\ ReturnsFrom(u)

(* C16: with a full bucket of capacity c and no time elapsing, exactly c   *)
(* consecutive non-blocking acquire(1) calls return true and the next one  *)
(* returns false: the call on the full bucket returns true, so does each   *)
(* call after fewer than c such calls, and the call after c of them        *)
(* returns false.                                                          *)
C16_CapacityThenRefusal ==
    [][\A u \in Callers : NonBlockingOne(u) =>
          /\ bucket.tokens = bucket.rate =>
                trace'[1].result /\ trace'[1].streak = 1
          /\ (bucket.tokens # bucket.rate /\ Streak \in 1..(bucket.rate - 1)) =>
                trace'[1].result /\ trace'[1].streak = Streak + 1
          /\ (bucket.tokens # bucket.rate /\ Streak = bucket.rate) =>
                ~trace'[1].result]_vars

C16_Witness ==
    /\ trace # <<>>
    /\ bucket.rate = 5
    /\ trace[1].k = 1 /\ ~trace[1].blocking
    /\ trace[1].prior = 5
    /\ ~trace[1].result

(* Caller u passes the refill of lines 155-160 in this step. *)
Refills(u) == upc[u].at = "entering" /\ upc'[u].at # "entering"

(* The token count the refill of caller u leaves. *)
RefilledTo(u) ==
    IF upc'[u].at = "sleeping" THEN upc'[u].available ELSE trace'[1].refilled

(* C17: in every reachable state of a limiter the token count is between   *)
(* 0 and the capacity, and a refill that comes a window or more after the  *)
(* last one brings the count to exactly the capacity.                      *)
C17_TokensWithinCapacity ==
    /\ [](bucket.tokens \in 0..bucket.rate)
    /\ [][\A u \in Callers :
             (Refills(u) /\ now - bucket.last_update >= bucket.window) =>
                 RefilledTo(u) = bucket.rate]_vars

C17_Witness ==
    /\ trace # <<>>
    /\ trace[1].found = 0
    /\ trace[1].elapsed > bucket.window
    /\ trace[1].refilled = bucket.rate
    /\ bucket.tokens \in 0..bucket.rate

(* The count lines 155-160 compute at time `now`. *)
RefilledCount ==
    LET added == ((now - bucket.last_update) * bucket.rate) \div bucket.window
    IN  IF bucket.tokens + added > bucket.rate THEN bucket.rate
        ELSE bucket.tokens + added

(* C18: a non-blocking acquire(k) that finds fewer than k tokens after the *)
(* refill returns false and deducts nothing: the bucket holds the refilled *)
(* count afterwards.                                                       *)
C18_RefusalDeductsNothing ==
    [][\A u \in Callers :
          (/\ upc[u].at = "entering" /\ ~upc[u].blocking
           /\ RefilledCount < upc[u].k
           /\ upc'[u] # upc[u]) =>
              /\ upc'[u].at = "idle"
              /\ ~trace'[1].result
              /\ trace'[1].caller = u
              /\ bucket'.tokens = RefilledCount]_vars

C18_Witness ==
    /\ trace # <<>>
    /\ ~trace[1].blocking /\ ~trace[1].result
    /\ trace[1].k = 3
    /\ trace[1].found = 0 /\ trace[1].refilled = 2
    /\ bucket.tokens = 2 /\ bucket.rate = 5
    /\ bucket_lock = NoHolder

(* C19: a blocking acquire(k) that finds fewer than k tokens sleeps once,  *)
(* for (k - available) * window / rate, then sets the bucket to zero and   *)
(* returns true; and every blocking acquire eventually returns true, also  *)
(* when several callers use the limiter at once.                           *)
C19_BlockingSleepsOnceThenReturns ==
    /\ [][\A u \in Callers :
             /\ (/\ upc[u].at = "entering" /\ upc[u].blocking
                 /\ RefilledCount < upc[u].k
                 /\ upc'[u] # upc[u]) =>
                    /\ upc'[u].at = "sleeping"
                    /\ upc'[u].wait =
                          ((upc[u].k - RefilledCount) * bucket.window)
                              \div bucket.rate
                    /\ bucket'.tokens = RefilledCount
             /\ (upc[u].at = "sleeping" /\ upc'[u] # upc[u]) =>
                    /\ upc'[u].at = "idle"
                    /\ now' = now + upc[u].wait
                    /\ bucket'.tokens = 0
                    /\ trace'[1].caller = u
                    /\ trace'[1].result
                    /\ trace'[1].slept = upc[u].wait]_vars
    /\ \A u \in Callers :
          (upc[u].at # "idle" /\ upc[u].blocking)
              ~> (/\ upc[u].at = "idle"
                  /\ trace # <<>>
                  /\ trace[1].caller = u
                  /\ trace[1].blocking
                  /\ trace[1].result)

C19_Witness ==
    /\ trace # <<>>
    /\ trace[1].blocking /\ trace[1].result
    /\ trace[1].k = 3 /\ trace[1].refilled = 1
    /\ trace[1].slept = 2 * RefillInterval(bucket)
    /\ bucket.tokens = 0
    /\ \E u \in Callers : upc[u].at = "entering" /\ upc[u].blocking

(***************************************************************************)
(* Properties of _get_next_client.                                         *)
(***************************************************************************)
(* The place of backend b in the client list. *)
Position(b) == CHOOSE i \in 1..Len(clients) : clients[i] = b

(* How often calls i .. j of the trace returned backend b. *)
Times(b, i, j) == Cardinality({n \in i..j : trace[n].result = b})

(* C20: with a fixed list of N >= 1 enabled backends, any N*k consecutive  *)
(* calls of _get_next_client return each backend exactly k times, in the   *)
(* cyclic order of the list.                                               *)
C20_RoundRobin ==
    (clients # <<>> /\ clients = get_enabled_backends) =>
        LET N == Len(clients)
        IN  /\ \A i \in 1..Len(trace) : trace[i].result \in Range(clients)
            /\ \A i \in 1..(Len(trace) - 1) :
                  Position(trace[i + 1].result)
                      = (Position(trace[i].result) % N) + 1
            /\ \A k \in 1..MaxTrace : \A i \in 1..Len(trace) :
                  i + N * k - 1 <= Len(trace) =>
                      \A b \in Range(clients) : Times(b, i, i + N * k - 1) = k


(***************************************************************************)
(* Properties of reinit_api_client.                                        *)
(***************************************************************************)
(* _init_clients returns in this step. *)
ReinitCompletes ==
    \/ init_pc = "building" /\ init_pc' = "idle"
    \/ init_pc = "idle" /\ init_pc' = "idle" /\ clients' # clients

(* C21: when reinitialize completes, the client list is the enabled        *)
(* backends of the configuration in configuration order and a limiter      *)
(* exists for each of their (backend, model) keys; and a generate call in  *)
(* flight is not failed by it: a call that has already selected a backend  *)
(* does not end with "no client available" or an exception while the list  *)
(* is being rebuilt.                                                       *)
C21_ReinitRebuildsAndSparesCalls ==
    /\ [][ReinitCompletes =>
             /\ clients' = get_enabled_backends'
             /\ \A b \in Range(clients') :
                   limiter_key(b, model'[b]) \in DOMAIN rate_limiters']_vars
    /\ [][\A t \in Threads :
             (/\ init_pc = "building"
              /\ obs[t].selections > 0
              /\ pc[t] = "loop" /\ pc'[t] = "done") =>
                 /\ outcome'[t].kind = "return"
                 /\ outcome'[t].payload # MsgNoClient]_vars


SetThenGet(i, j) ==
    /\ i < j
    /\ trace[i].op = "set"
    /\ trace[j].op = "get" /\ trace[j].key = trace[i].key
    /\ \A n \in (i + 1)..(j - 1) : trace[n].op = "tick"
    /\ trace[j].at - trace[i].at < trace[i].ttl

(* C23: a set whose write of the persisted document fails does not raise   *)
(* and leaves the new entry in the map, so that a following get within     *)
(* ttl returns it; and the map after a set is the same whether the write   *)
(* succeeded or failed, so get, clear, expiry and eviction go on as they   *)
(* do with a working disk.                                                 *)
C23_WriteFailureIsHarmless ==
    /\ [][Does("set") =>
             /\ ~Done.raised
             /\ Done.key \in DOMAIN cache'
             /\ cache'[Done.key].value = Done.value
             /\ cache'[Done.key].timestamp = now
             /\ cache'[Done.key].ttl = Done.ttl
             /\ cache' = CacheAfterSet(cache, Done.key, Done.value, Done.ttl,
                                       now, max_size)]_vars
    /\ [](\A i \in 1..Len(trace) : \A j \in 1..Len(trace) :
             SetThenGet(i, j) =>
                 trace[j].result = [some |-> TRUE, value |-> trace[i].value])

(* Every write has failed, the file is cut short, and the entry is served. *)
C23_Witness ==
    /\ Len(trace) >= 3
    /\ \A i \in 1..Len(trace) : trace[i].op = "set" => trace[i].write # "ok"
    /\ \E i \in 1..Len(trace) : trace[i].op = "set" /\ trace[i].write = "torn"
    /\ SetThenGet(Len(trace) - 2, Len(trace))
    /\ trace[Len(trace)].result.some
    /\ disk = CorruptDocument


(* Nothing can be read from the document: the file is missing, is not a    *)
(* JSON document, or holds an entry whose ttl is not a number.             *)
Unreadable(doc) ==
    \/ doc.state # "document"
    \/ \E k \in DOMAIN doc.entries : ~IsInt(doc.entries[k].ttl)

(* Map c is what a ResponseCache constructed at time t over document doc   *)
(* is to hold.                                                             *)
LoadedAs(c, doc, t) ==
    /\ Unreadable(doc) => c = EmptyCache
    /\ ~Unreadable(doc) =>
          /\ DOMAIN c = DOMAIN doc.entries
          /\ \A k \in DOMAIN c :
                /\ c[k].value = doc.entries[k].value
                /\ c[k].ttl = doc.entries[k].ttl[2]
                /\ c[k].timestamp =
                      IF doc.entries[k].timestamp[1] = "iso"
                      THEN doc.entries[k].timestamp[2] ELSE t

(* C24: constructing the cache over a missing or corrupt document gives an *)
(* empty cache and does not raise; over a readable document, an entry      *)
(* whose timestamp does not parse is loaded with the time of the load as   *)
(* its timestamp, and the other entries are loaded as well.                *)
C24_LoadToleratesBadDocument ==
    /\ [](trace = <<>> => LoadedAs(cache, disk, 0))
    /\ [][Does("restart") => LoadedAs(cache', disk, now)]_vars

(* A restart at time 1 over the document whose first timestamp does not    *)
(* parse.                                                                  *)
C24_Witness ==
    /\ Len(trace) = 2
    /\ trace[1].op = "tick" /\ trace[2].op = "restart"
    /\ disk = EditedDocument(Unparsable, JsonNumber(2))
    /\ now = 1
    /\ cache[_generate_key(MsgHello, "m1")].timestamp = 1
    /\ cache[_generate_key(MsgHello, "m2")].timestamp = 0


(***************************************************************************)
(* Properties of the rotation cursor.                                      *)
(***************************************************************************)
(* C25: in every reachable state with at least one client in the list,     *)
(* also after a reinitialization has made the list shorter, the rotation   *)
(* cursor is at least 0 and less than the length of the list.              *)
C25_CursorInsideList ==
    clients # <<>> => current_client_index \in 0..(Len(clients) - 1)


(* Caller u passes lines 222-227 in this step. *)
Picks(u) == upc[u].at = "checked" /\ upc'[u].at = "idle"

(* C26: with a fixed client list and a cursor on one of its positions,     *)
(* calls of _get_next_client made concurrently read and advance the cursor *)
(* atomically: each call returns the client at the cursor and moves the    *)
(* cursor to the next position of the cycle, so the calls get consecutive  *)
(* positions, none handed out twice and none skipped.                      *)
C26_CursorAdvanceIsAtomic ==
    /\ [][\A u \in Callers :
             (Picks(u) /\ current_client_index < Len(clients)) =>
                 /\ trace'[Len(trace')].caller = u
                 /\ trace'[Len(trace')].result
                       = clients[current_client_index + 1]
                 /\ current_client_index'
                       = (current_client_index + 1) % Len(clients)
                 /\ \A v \in Callers \ {u} : upc'[v] = upc[v]]_vars
    /\ [](\A i \in 1..(Len(trace) - 1) :
             (trace[i].result \in Range(clients)
              /\ trace[i + 1].result \in Range(clients)) =>
                 Position(trace[i + 1].result)
                     = (Position(trace[i].result) % Len(clients)) + 1)

(* Two callers were inside _get_next_client together and took the two      *)
(* positions one after the other; one of them is inside again.             *)
C26_Witness ==
    /\ clients = <<"A", "B">>
    /\ Len(trace) = 3
    /\ trace[1].result = "A" /\ trace[1].caller = "u1"
    /\ trace[2].result = "B" /\ trace[2].caller = "u2"
    /\ trace[3].result = "A" /\ trace[3].caller = "u1"
    /\ upc["u2"].at = "checked"
    /\ current_client_index = 1


(***************************************************************************)
(* Properties of generate running beside a reinitialization.               *)
(***************************************************************************)
(* Thread t goes through _get_next_client in this step. *)
Selects(t) ==
    /\ pc[t] = "loop" /\ pc'[t] # "loop"
    /\ LoopContinues(retry_count[t], args[t].max_retries)

(* C27: a generate call that selects a backend while _init_clients runs    *)
(* sees the complete old list or the complete new one, never an empty or   *)
(* half-built list: a call that has selected from the old list, and whose  *)
(* new list is not empty either, does not find the list empty and does not *)
(* fail with "no client available".                                        *)
C27_NoTornList ==
    [][\A t \in Threads :
          (/\ Selects(t)
           /\ init_pc = "building"
           /\ obs[t].selections > 0
           /\ clients \o init_todo # <<>>) =>
              /\ clients # <<>>
              /\ outcome'[t] # Returned(FALSE, MsgNoClient)]_vars


(***************************************************************************)
(* Properties of the locks.                                                *)
(***************************************************************************)
(* C28: no thread holds a limiter's lock (or the cache lock) while it      *)
(* sleeps or performs I/O: a caller that waits for tokens inside a         *)
(* blocking acquire has released RateLimiter.lock, so that no other caller *)
(* of acquire on the same limiter is kept waiting for the lock.            *)
C28_NoLockHeldAcrossSleep ==
    \A u \in Callers :
        upc[u].at = "sleeping" =>
            /\ bucket_lock # u
            /\ \A v \in Callers \ {u} :
                  upc[v].at = "entering" => bucket_lock = NoHolder


(***************************************************************************)
(* Properties of the cache key.                                            *)
(***************************************************************************)
(* C29: cache entries are keyed by messages and model.  The keys of the    *)
(* same messages under two different models differ, a generate call is     *)
(* served from the cache only with the entry of its messages under the     *)
(* model of the backend it selected, and when that model has no entry the  *)
(* call goes on to the backend, whatever entries other models have.        *)
C29_KeyedByMessagesAndModel ==
    /\ [](\A messages \in MessageArgs : \A m1 \in Models : \A m2 \in Models :
             m1 # m2 =>
                 _generate_key(messages, m1) # _generate_key(messages, m2))
    /\ [][\A t \in Threads :
             (obs'[t].cache_gets = obs[t].cache_gets + 1) =>
                 LET key == _generate_key(args[t].messages, local_model'[t])
                 IN  /\ local_model'[t] = model[client_info'[t].backend]
                     /\ obs'[t].hit =>
                           /\ key \in DOMAIN cache
                           /\ outcome'[t]
                                 = Returned(TRUE, Text(cache[key].value))
                     /\ key \notin DOMAIN cache =>
                           /\ ~obs'[t].hit
                           /\ pc'[t] = "acquire"]_vars

(* The entry of the messages under m1 is in the cache and unexpired, the   *)
(* call selected the backend of model m2 and is calling it.                *)
C29_Witness ==
    \E t \in Threads :
        /\ pc[t] = "invoke"
        /\ args[t].messages = MsgHello /\ args[t].use_cache
        /\ local_model[t] = "m2"
        /\ obs[t].cache_gets = 1 /\ ~obs[t].hit
        /\ _generate_key(MsgHello, "m1") \in DOMAIN cache
        /\ cache[_generate_key(MsgHello, "m1")].value = "Hello"
        /\ Unexpired(cache[_generate_key(MsgHello, "m1")], now)
        /\ _generate_key(MsgHello, "m2") \notin DOMAIN cache


(***************************************************************************)
(* Properties of the retry loop's selection.                               *)
(***************************************************************************)
(* C30: after a retryable error the next attempt of the same generate call *)
(* goes through the selection again.  With at least two clients, the list  *)
(* as it was constructed and no other caller, the attempt takes the client *)
(* that follows the previous attempt's client in the cycle, and the cache  *)
(* is looked up again, under that client's model, before any call of the   *)
(* backend.                                                                *)
C30_RetryTakesNextBackend ==
    [][\A t \in Threads :
          (/\ Selects(t)
           /\ obs[t].selections >= 1
           /\ budget.ops = 0
           /\ Len(clients) >= 2) =>
              LET previous == client_info[t].backend
                  follower == clients[(Position(previous) % Len(clients)) + 1]
                  key      == _generate_key(args[t].messages, model[follower])
              IN  /\ client_info'[t].backend = follower
                  /\ local_model'[t] = model[follower]
                  /\ obs'[t].selections = obs[t].selections + 1
                  /\ obs'[t].invocations = obs[t].invocations
                  /\ (args[t].use_cache /\ model[follower] # "") =>
                        /\ obs'[t].cache_gets = obs[t].cache_gets + 1
                        /\ obs'[t].cached = CacheGetResult(cache, key, now)]_vars

(* The first attempt called A and got a retryable error; the second has    *)
(* looked up the cache under B's model and is calling B.                   *)
C30_Witness ==
    \E t \in Threads :
        /\ pc[t] = "invoke"
        /\ budget.ops = 0
        /\ clients = <<"A", "B">>
        /\ retry_count[t] = 1
        /\ obs[t].selections = 2 /\ obs[t].invocations = 1
        /\ obs[t].cache_gets = 2
        /\ client_info[t].backend = "B"
        /\ local_model[t] = "m2"


(***************************************************************************)
(* Properties of the backoff.                                              *)
(***************************************************************************)
(* C31: within a generate call a retryable error is followed by a backoff  *)
(* sleep only if attempts remain: a call sleeps its backoff only when its  *)
(* retry count is still below max_retries, and when the failed attempt was *)
(* the last one allowed the call ends in failure without having slept for  *)
(* it.                                                                     *)
C31_BackoffOnlyIfAttemptsRemain ==
    \A t \in Threads :
        /\ pc[t] = "backoff" => retry_count[t] < args[t].max_retries
        /\ (pc[t] = "done" /\ outcome[t] = Returned(FALSE, MsgRetries(args[t].max_retries))) =>
               obs[t].sleeps < obs[t].invocations \/ obs[t].invocations = 0


(* C32: the backoff sleep after the k-th retryable failure of a call is    *)
(* base_wait * 1.5^k + jitter with base_wait = 1 and 0 <= jitter < 0.5,    *)
(* and each backoff sleep of a call is longer than the one before it,      *)
(* whatever the jitter values.                                             *)
SleepsOnceMore(t) == obs'[t].sleeps = obs[t].sleeps + 1

JitterOf(wait, k) == RatSub(wait, RatPow(Rat(3, 2), k))

Last(s) == s[Len(s)]

C32_BackoffGrows ==
    [][\A t \in Threads :
          SleepsOnceMore(t) =>
              /\ Len(obs'[t].waits) = obs'[t].sleeps
              /\ LET k    == obs'[t].sleeps
                     wait == Last(obs'[t].waits)
                 IN  /\ RatLeq(Rat(0, 1), JitterOf(wait, k))
                     /\ RatLess(JitterOf(wait, k), Rat(1, 2))
                     /\ obs[t].waits # <<>> =>
                            RatLess(Last(obs[t].waits), wait)]_vars

(* Two backoffs of one call: the first with the largest jitter, the second *)
(* with none.                                                              *)
C32_Witness ==
    \E t \in Threads :
        /\ obs[t].sleeps = 2
        /\ RatSame(JitterOf(obs[t].waits[1], 1),
                   Rat(JitterSteps - 1, 2 * JitterSteps))
        /\ RatSame(JitterOf(obs[t].waits[2], 2), Rat(0, 1))


(***************************************************************************)
(* Properties of the limiter registry.                                     *)
(***************************************************************************)
(* C33: lazy creation of a limiter is mutually exclusive: generate creates *)
(* at most one limiter per key, and the limiter the registry holds for a   *)
(* key records every acquire made for that key (no time passes, so each    *)
(* acquire that returned has taken one token from the full bucket).        *)
C33_OneLimiterPerKey ==
    \A k \in DOMAIN rate_limiters :
        /\ trace.created[k] <= 1
        /\ rate_limiters[k].tokens = LIMITER_RATE - trace.acquired[k]


(* C34: every backend invocation of generate comes after a blocking        *)
(* acquire of one token, made in the same attempt on the limiter keyed by  *)
(* the selected backend's name and model, that returned; the token stays   *)
(* consumed whether the invocation succeeds or fails; a cache hit takes no *)
(* token.                                                                  *)
Invokes(t)  == obs'[t].invocations = obs[t].invocations + 1
Acquires(t) == obs'[t].acquires = obs[t].acquires + 1
Hits(t)     == obs'[t].hit /\ ~obs[t].hit

LimitersKept ==
    \A k \in DOMAIN rate_limiters :
        k \in DOMAIN rate_limiters' /\ rate_limiters'[k] = rate_limiters[k]

C34_TokenPerInvocation ==
    [][\A t \in Threads :
          /\ Invokes(t) =>
                /\ obs[t].acquires = obs[t].invocations + 1
                /\ LimitersKept
          /\ Acquires(t) =>
                LET key == limiter_key(client_info[t].backend, local_model[t])
                    had == Refilled(rate_limiters[key], now)
                IN  /\ pc'[t] = "invoke"
                    /\ had >= 1
                    /\ rate_limiters'[key].tokens = had - 1
                    /\ \A k \in DOMAIN rate_limiters \ {key} :
                           rate_limiters'[k] = rate_limiters[k]
          /\ Hits(t) =>
                /\ obs'[t].acquires = obs[t].acquires
                /\ obs'[t].invocations = obs[t].invocations
                /\ LimitersKept]_vars

(* A call whose first invocation failed and whose second succeeded has     *)
(* taken two tokens.                                                       *)
C34_Witness ==
    \E t \in Threads :
        /\ pc[t] = "done"
        /\ obs[t].ok
        /\ obs[t].errors # {}
        /\ obs[t].invocations = 2
        /\ obs[t].acquires = 2


(***************************************************************************)
(* Properties of reinitialization and the configuration.                   *)
(***************************************************************************)
(* Line 248-250: generate reports that no backend is enabled. *)
ReportsNoBackend == get_enabled_backends = <<>>

(* Lines 268-269 and 276: the model, cache key and limiter key generate    *)
(* uses when it selects backend b for `messages`.                          *)
Uses(b, messages) ==
    [model |-> model[b],
     cache_key |-> _generate_key(messages, model[b]),
     limiter_key |-> limiter_key(b, model[b])]

(* C35: an edit of the configuration (enabling or disabling a backend,     *)
(* changing a backend's model) changes neither the backends generate       *)
(* selects from, nor whether generate reports "no enabled backend", nor    *)
(* the model, cache key and limiter key it uses for a selected backend;    *)
(* only reinitialize does.                                                 *)
C35_ConfigEditsWaitForReinit ==
    [][config_vars' # config_vars =>
          /\ clients' = clients
          /\ ReportsNoBackend' = ReportsNoBackend
          /\ \A b \in Range(clients) :
                 Uses(b, MsgHello)' = Uses(b, MsgHello)]_vars


(* C36: two generate calls with use_cache = true and the same messages     *)
(* that select backends with the same model cause at most one backend      *)
(* invocation in total when the first invocation succeeds (no time passes, *)
(* so the entry it stores is within its ttl), also when the calls overlap. *)
C36_OneInvocationPerKey ==
    \A m \in Models :
        trace.first[m] = "ok" => trace.invocations[m] <= 1

(***************************************************************************)
(* Properties of the rate a limiter enforces.                              *)
(***************************************************************************)
(* C37: over any sequence of blocking acquire(1) calls, the acquires that  *)
(* returned true in an interval of length T number at most                 *)
(* capacity + rate * T / window; here the interval runs from the           *)
(* construction of the limiter (time 0, bucket full) to the last return.   *)
C37_RateEnforced ==
    (trace # <<>> /\ trace[1].only_blocking_ones) =>
        trace[1].served * bucket.window
            <= bucket.rate * bucket.window + bucket.rate * trace[1].at


Persisted(doc, c) ==
    /\ DOMAIN doc.entries = DOMAIN c
    /\ \A k \in DOMAIN c : doc.entries[k].value = c[k].value

(* C39: after every completed mutation of the cache whose write succeeds   *)
(* (set, clear, and the deletion of an expired entry by get) the persisted *)
(* document holds exactly the keys and values of the map, so a restart     *)
(* after clear or after an expiry deletion loads none of the removed       *)
(* entries.                                                                *)
C39_DocumentFollowsMap ==
    [][/\ (Does("set") \/ Does("clear") \/ (Does("get") /\ cache' # cache))
              => Persisted(disk', cache')
       /\ (Does("restart") /\ Len(trace) >= 1
               /\ trace[Len(trace)].op = "clear")
              => cache' = EmptyCache]_vars


(***************************************************************************)
(* Properties of reinitialization: what it leaves alone.                   *)
(***************************************************************************)
(* A step of _init_clients: the list is emptied or a backend is appended. *)
ReinitSteps ==
    init_pc' # init_pc \/ init_todo' # init_todo \/ clients' # clients

(* C40: reinitialize leaves the token count and last-refill time of every  *)
(* limiter that exists unchanged, removes no limiter, and leaves the cache *)
(* contents and the rotation cursor unchanged.                             *)
C40_ReinitKeepsQuotaCacheCursor ==
    [][ReinitSteps =>
          /\ LimitersKept
          /\ cache' = cache
          /\ current_client_index' = current_client_index]_vars

(* A reinitialization has appended a backend whose limiter has given out a *)
(* token, with an entry in the cache and the cursor off its first place.   *)
C40_Witness ==
    /\ init_pc = "building"
    /\ clients # <<>>
    /\ \E b \in Range(clients) :
          /\ limiter_key(b, model[b]) \in DOMAIN rate_limiters
          /\ rate_limiters[limiter_key(b, model[b])].tokens < LIMITER_RATE
    /\ cache # EmptyCache
    /\ current_client_index # 0

====
